---- MODULE Spec2Model ----
(***************************************************************************)
(* SillyAgents: the subroutine loop runtime (subroutines.js, multi-chat    *)
(* variant) together with the shared config accessor of utils.js, and the  *)
(* skill import of the skills manager (skills.js, skills-import.js).       *)
(*                                                                         *)
(* JavaScript runs one task at a time: a synchronous function is one       *)
(* atomic action, and an async function is one action per stretch of code  *)
(* between two awaits on an external collaborator.                         *)
(***************************************************************************)
EXTENDS Integers, Sequences, FiniteSets, Bags, TLC

\* ---------------------------------------------------------------- bounds
MaxIntervalIds == 2      \* setInterval handles handed out in one run
MaxTicks       == 2      \* onTick invocations suspended at an await at once
MaxMainTicks   == 1      \* the same, in the two-chat specifications
MaxTurns       == 1      \* a tick is fired only while the chat file is shorter
MaxSettling    == 1      \* pending 100 ms settle delays per chat
MaxSkills      == 2      \* an import is started only while the library is smaller
MaxImports     == 1      \* onImportZip invocations suspended at an await at once
MaxScans       == 1      \* scanChatList invocations suspended in a fetch at once

\* ------------------------------------------------------------- constants
MinIntervalSeconds == 5  \* Math.max(config.intervalSeconds, 5)
MsPerSecond == 1000

\* ------------------------------------------------------------ value sets
MainChats == {"A", "B"}
AllChats  == {"A", "B", "C"}
NoChatId  == "undefined"     \* data?.chatId of an event without chatId
NoConfig  == [null |-> TRUE]      \* meta?.sillyagents ?? null
NoLoop    == [undefined |-> TRUE] \* _runningLoops.get(chatId) === undefined
NotCached == [notCached |-> TRUE] \* _metaCache[filename] === undefined

Max(a, b) == IF a >= b THEN a ELSE b

\* Text the runtime inspects (tool results, toolCondition, HTTP bodies) is
\* a sequence of characters; text it only forwards is an opaque string.

\* defaultSubroutineConfig() of utils.js, the fields the runtime and the chat
\* list read.
defaultSubroutineConfig ==
    [ isSubroutine     |-> TRUE,
      triggerType      |-> "time",
      intervalSeconds  |-> 300,
      toolName         |-> "",
      toolCondition    |-> <<>>,
      apiUrl           |-> "",
      autoQueue        |-> FALSE,
      autoQueuePrompt  |-> "Continue working on the current task. Call a tool or report your status.",
      heartbeatMessage |-> "[heartbeat]",
      color            |-> "#4a90d9",
      running          |-> FALSE ]

\* The configs the settings panel writes in the registry specifications.
MainConfigs ==
    { [defaultSubroutineConfig EXCEPT !.running = TRUE, !.intervalSeconds = 1],
      [defaultSubroutineConfig EXCEPT !.running = FALSE] }

VARIABLES
    chatMetadata,     \* chat -> its sillyagents block, or NoConfig
    currentChat,      \* the chat SillyTavern.getContext() currently points at
    chatFiles,        \* chat -> the persisted chat array (the transcript)
    runningLoops,     \* _runningLoops: chat -> [intervalId], or NoLoop
    isGenerating,     \* intervalId -> isGenerating of the LoopState object
                      \*   created together with that interval
    timers,           \* armed setInterval timers: [id, chatId, interval]
    nextIntervalId,   \* the handle the next setInterval call returns
    ticks,            \* bag of onTick invocations suspended at an await
    settling,         \* chat -> onSubroutineCreated calls in their 100 ms delay
    notifications,    \* chats with an sa:config-changed event not yet delivered
    initPc,           \* init(): "scanning" until getChats() has returned
    emitted,          \* sa:loop-state events emitted by the last handler
    skills,           \* _skills of the skills manager: the in-memory library
    skillStore,       \* the library persisted under SKILLS_STORE_KEY
    imports,          \* bag of onImportZip invocations suspended at an await
    JSZipLoaded,      \* _JSZip of skills-import.js has been set
    uiEvents,         \* panel / chat-list handlers suspended in saveMetadata(),
                      \*   about to emit their event: [type, chat]
    metaCache,        \* _metaCache of chat-list.js: chat file -> config, null
                      \*   (NoConfig) or NotCached
    pastChats,        \* the chat items of .past_chats in document order
    borderLeft,       \* chat item -> the color of its left border, "" for none
    scans,            \* bag of scanChatList invocations suspended in a fetch
    mutationQueued,   \* the observer holds records with added nodes
    observer,         \* chat-list init(): "waiting" for .past_chats, then
                      \*   "attached" (_observer set) or "absent" (timed out)
    lastOp            \* history: the handler that ran last, its argument, its path

regVars == <<runningLoops, isGenerating, timers, nextIntervalId>>
envVars == <<chatMetadata, currentChat>>
busVars == <<settling, notifications, initPc>>
skillVars == <<skills, skillStore, imports, JSZipLoaded>>
uiVars == <<uiEvents, metaCache, pastChats, borderLeft, scans, mutationQueued,
            observer>>
vars == <<chatMetadata, currentChat, chatFiles, runningLoops, isGenerating,
          timers, nextIntervalId, ticks, settling, notifications, initPc,
          emitted, skills, skillStore, imports, JSZipLoaded, uiEvents,
          metaCache, pastChats, borderLeft, scans, mutationQueued, observer,
          lastOp>>

\* ------------------------------------------------------------- utils.js
\* getSubroutineConfig is declared without parameters (the runtime's header
\* notes that it "now takes chatId", utils.js does not): the chatId the
\* runtime passes is dropped and the block of the current chat is returned.
getSubroutineConfig(chatId) == chatMetadata[currentChat]

\* config?.running
Running(config) == config # NoConfig /\ config.running

\* ------------------------------------------------------- loop lifecycle
\* The registry part of the state as one value, so that a handler that
\* calls startLoop / stopLoop several times is a single action.  emitted
\* starts empty in every handler.
Registry ==
    [ runningLoops   |-> runningLoops,
      isGenerating   |-> isGenerating,
      timers         |-> timers,
      nextIntervalId |-> nextIntervalId,
      emitted        |-> <<>> ]

emitLoopState(r, chatId, running) ==
    [r EXCEPT !.emitted = Append(@, [chatId |-> chatId, running |-> running])]

\* startLoop without its `_runningLoops.has(chatId)` early return
startLoop_NoHasCheck(r, chatId) ==
    IF chatId = NoChatId THEN r
    ELSE LET config == getSubroutineConfig(chatId) IN
         IF config = NoConfig THEN r
         ELSE LET interval   == Max(config.intervalSeconds, MinIntervalSeconds) * MsPerSecond
                  intervalId == r.nextIntervalId
              IN  emitLoopState(
                    [r EXCEPT
                       !.timers = @ \cup {[id |-> intervalId, chatId |-> chatId,
                                           interval |-> interval]},
                       !.nextIntervalId = @ + 1,
                       !.runningLoops[chatId] = [intervalId |-> intervalId],
                       !.isGenerating = [i \in DOMAIN @ \cup {intervalId} |->
                                           IF i = intervalId THEN FALSE ELSE @[i]]],
                    chatId, TRUE)

\* startLoop without the 5 s minimum
startLoop_NoClamp(r, chatId) ==
    IF chatId = NoChatId THEN r
    ELSE IF r.runningLoops[chatId] # NoLoop THEN r
    ELSE LET config == getSubroutineConfig(chatId) IN
         IF config = NoConfig THEN r
         ELSE LET interval   == config.intervalSeconds * MsPerSecond
                  intervalId == r.nextIntervalId
              IN  emitLoopState(
                    [r EXCEPT
                       !.timers = @ \cup {[id |-> intervalId, chatId |-> chatId,
                                           interval |-> interval]},
                       !.nextIntervalId = @ + 1,
                       !.runningLoops[chatId] = [intervalId |-> intervalId],
                       !.isGenerating = [i \in DOMAIN @ \cup {intervalId} |->
                                           IF i = intervalId THEN FALSE ELSE @[i]]],
                    chatId, TRUE)

startLoop(r, chatId) ==
    IF chatId = NoChatId THEN r
    ELSE IF r.runningLoops[chatId] # NoLoop THEN r
    ELSE LET config == getSubroutineConfig(chatId) IN
         IF config = NoConfig THEN r
         ELSE LET interval   == Max(config.intervalSeconds, MinIntervalSeconds) * MsPerSecond
                  intervalId == r.nextIntervalId
              IN  emitLoopState(
                    [r EXCEPT
                       !.timers = @ \cup {[id |-> intervalId, chatId |-> chatId,
                                           interval |-> interval]},
                       !.nextIntervalId = @ + 1,
                       !.runningLoops[chatId] = [intervalId |-> intervalId],
                       !.isGenerating = [i \in DOMAIN @ \cup {intervalId} |->
                                           IF i = intervalId THEN FALSE ELSE @[i]]],
                    chatId, TRUE)

\* stopLoop that forgets clearInterval
stopLoop_NoClearInterval(r, chatId) ==
    IF chatId = NoChatId THEN r
    ELSE LET loopState == r.runningLoops[chatId] IN
         IF loopState = NoLoop THEN r
         ELSE emitLoopState([r EXCEPT !.runningLoops[chatId] = NoLoop], chatId, FALSE)

\* stopLoop that emits sa:loop-state even when nothing was running
stopLoop_AlwaysEmits(r, chatId) ==
    IF chatId = NoChatId THEN r
    ELSE LET loopState == r.runningLoops[chatId] IN
         IF loopState = NoLoop THEN emitLoopState(r, chatId, FALSE)
         ELSE emitLoopState(
                [r EXCEPT
                   !.timers = {t \in @ : t.id # loopState.intervalId},
                   !.runningLoops[chatId] = NoLoop],
                chatId, FALSE)

stopLoop(r, chatId) ==
    IF chatId = NoChatId THEN r
    ELSE LET loopState == r.runningLoops[chatId] IN
         IF loopState = NoLoop THEN r
         ELSE emitLoopState(
                [r EXCEPT
                   !.timers = {t \in @ : t.id # loopState.intervalId},
                   !.runningLoops[chatId] = NoLoop],
                chatId, FALSE)

restartLoop(r, chatId) ==
    LET wasRunning == r.runningLoops[chatId] # NoLoop
        stopped    == stopLoop(r, chatId)
    IN  IF wasRunning THEN startLoop(stopped, chatId) ELSE stopped

\* Install a registry value as the next state.
Install(r) ==
    /\ nextIntervalId' = r.nextIntervalId
    /\ runningLoops'   = r.runningLoops
    /\ isGenerating'   = r.isGenerating
    /\ timers'         = r.timers
    /\ emitted'        = r.emitted

\* The same for a handler that can run any number of times in one run:
\* the run ends when the handles are used up.
SetRegistry(r) ==
    /\ r.nextIntervalId <= MaxIntervalIds + 1
    /\ Install(r)

Op(name, chatId, path) == [op |-> name, chatId |-> chatId, path |-> path]

\* ------------------------------------------------------------------ Init
\* The extension has just been loaded: init() has registered its listeners
\* and awaits getChats(); nothing is running.  The chats and their metadata
\* are whatever the previous run persisted.
InitWith(chats, configs) ==
    /\ chatMetadata \in [AllChats -> configs \cup {NoConfig}]
    /\ \A c \in AllChats \ chats : chatMetadata[c] = NoConfig
    /\ currentChat \in chats
    /\ chatFiles = [c \in AllChats |-> <<>>]
    /\ runningLoops = [c \in AllChats |-> NoLoop]
    /\ isGenerating = <<>>
    /\ timers = {}
    /\ nextIntervalId = 1
    /\ ticks = EmptyBag
    /\ settling = [c \in AllChats |-> 0]
    /\ notifications = {}
    /\ initPc = "scanning"
    /\ emitted = <<>>
    /\ skills = <<>>
    /\ skillStore = <<>>
    /\ imports = EmptyBag
    /\ JSZipLoaded = FALSE
    /\ uiEvents = {}
    /\ metaCache = [c \in AllChats |-> NotCached]
    /\ pastChats = <<"A", "B">>
    /\ borderLeft = [c \in AllChats |-> ""]
    /\ scans = EmptyBag
    /\ mutationQueued = FALSE
    /\ observer = "waiting"
    /\ lastOp = Op("init", NoChatId, "")

\* --------------------------------------------------------------- actions
\* export function startLoop(chatId)
StartLoop(chatId) ==
    /\ SetRegistry(startLoop(Registry, chatId))
    /\ lastOp' = Op("startLoop", chatId,
                    IF runningLoops[chatId] # NoLoop THEN "already"
                    ELSE IF getSubroutineConfig(chatId) = NoConfig THEN "noconfig"
                    ELSE "started")
    /\ UNCHANGED <<envVars, chatFiles, ticks, busVars>>
    /\ UNCHANGED <<skillVars, uiVars>>

\* export function stopLoop(chatId)
StopLoop(chatId) ==
    /\ SetRegistry(stopLoop(Registry, chatId))
    /\ lastOp' = Op("stopLoop", chatId,
                    IF runningLoops[chatId] = NoLoop THEN "noloop" ELSE "stopped")
    /\ UNCHANGED <<envVars, chatFiles, ticks, busVars>>
    /\ UNCHANGED <<skillVars, uiVars>>

\* function onConfigChanged(data), listener of sa:config-changed
onConfigChangedPath(r, chatId) ==
    IF chatId = NoChatId THEN "nochatid"
    ELSE LET config == getSubroutineConfig(chatId) IN
         IF config = NoConfig THEN "noconfig"
         ELSE LET isRunning == r.runningLoops[chatId] # NoLoop IN
              IF config.running /\ ~isRunning THEN "start"
              ELSE IF ~config.running /\ isRunning THEN "stop"
              ELSE IF isRunning THEN "restart"
              ELSE "nothing"

onConfigChanged(r, chatId) ==
    LET path == onConfigChangedPath(r, chatId) IN
    CASE path = "noconfig" -> stopLoop(r, chatId)
      [] path = "start"    -> startLoop(r, chatId)
      [] path = "stop"     -> stopLoop(r, chatId)
      [] path = "restart"  -> restartLoop(r, chatId)
      [] OTHER             -> r

OnConfigChanged(chatId) ==
    /\ SetRegistry(onConfigChanged(Registry, chatId))
    /\ lastOp' = Op("onConfigChanged", chatId, onConfigChangedPath(Registry, chatId))
    /\ UNCHANGED <<envVars, chatFiles, ticks, busVars>>
    /\ UNCHANGED <<skillVars, uiVars>>

\* A writer stores a config for the current chat (setSubroutineConfig) and
\* an sa:config-changed {chatId} event for that chat is queued, to be
\* delivered later.  The panel's own onFormChange emits the event without
\* data, which is OnConfigChanged(NoChatId).
WriteConfig(config) ==
    /\ chatMetadata[currentChat] # config
    /\ chatMetadata' = [chatMetadata EXCEPT ![currentChat] = config]
    /\ notifications' = notifications \cup {currentChat}
    /\ lastOp' = Op("writeConfig", currentChat, "")
    /\ emitted' = <<>>
    /\ UNCHANGED <<currentChat, chatFiles, regVars, ticks, settling, initPc>>
    /\ UNCHANGED <<skillVars, uiVars>>

\* the queued sa:config-changed {chatId} reaches onConfigChanged
DeliverConfigChanged(chatId) ==
    /\ chatId \in notifications
    /\ notifications' = notifications \ {chatId}
    /\ SetRegistry(onConfigChanged(Registry, chatId))
    /\ lastOp' = Op("onConfigChanged", chatId, onConfigChangedPath(Registry, chatId))
    /\ UNCHANGED <<envVars, chatFiles, ticks, settling, initPc>>
    /\ UNCHANGED <<skillVars, uiVars>>

\* async function onSubroutineCreated(data): up to the 100 ms setTimeout
OnSubroutineCreated(chatId) ==
    /\ lastOp' = Op("onSubroutineCreated", chatId, "")
    /\ emitted' = <<>>
    /\ IF chatId = NoChatId
       THEN UNCHANGED settling
       ELSE /\ settling[chatId] < MaxSettling
            /\ settling' = [settling EXCEPT ![chatId] = @ + 1]
    /\ UNCHANGED <<envVars, chatFiles, regVars, ticks, notifications, initPc>>
    /\ UNCHANGED <<skillVars, uiVars>>

\* onSubroutineCreated after the delay: re-read the config, maybe start
SettleElapsed(chatId) ==
    /\ settling[chatId] > 0
    /\ settling' = [settling EXCEPT ![chatId] = @ - 1]
    /\ LET config == getSubroutineConfig(chatId) IN
       IF Running(config)
       THEN /\ SetRegistry(startLoop(Registry, chatId))
            /\ lastOp' = Op("settleElapsed", chatId, "start")
       ELSE /\ SetRegistry(Registry)
            /\ lastOp' = Op("settleElapsed", chatId, "nothing")
    /\ UNCHANGED <<envVars, chatFiles, ticks, notifications, initPc>>
    /\ UNCHANGED <<skillVars, uiVars>>

\* async function startAllRunningSubroutines(), after getChats() returned
\* the chat list `chats` (a sequence of file names)
RECURSIVE startAllRunningSubroutines(_, _)
startAllRunningSubroutines(r, chats) ==
    IF chats = <<>> THEN r
    ELSE LET config == getSubroutineConfig(Head(chats))
             r1 == IF Running(config) THEN startLoop(r, Head(chats)) ELSE r
         IN  startAllRunningSubroutines(r1, Tail(chats))

ResumeAll(chats) ==
    /\ initPc = "scanning"
    /\ initPc' = "ready"
    /\ Install(startAllRunningSubroutines(Registry, chats))
    /\ lastOp' = Op("resumeAll", NoChatId, "scanned")
    /\ UNCHANGED <<envVars, chatFiles, ticks, settling, notifications>>
    /\ UNCHANGED <<skillVars, uiVars>>

\* getChats() throws: caught and logged, nothing is started
ResumeAllFailed ==
    /\ initPc = "scanning"
    /\ initPc' = "ready"
    /\ Install(Registry)
    /\ lastOp' = Op("resumeAll", NoChatId, "failed")
    /\ UNCHANGED <<envVars, chatFiles, ticks, settling, notifications>>
    /\ UNCHANGED <<skillVars, uiVars>>

\* The host switches the open chat (CHAT_CHANGED): the context's
\* chatMetadata reference now points at the other chat's metadata.
SwitchChat(chatId) ==
    /\ chatId # currentChat
    /\ currentChat' = chatId
    /\ lastOp' = Op("switchChat", chatId, "")
    /\ emitted' = <<>>
    /\ UNCHANGED <<chatMetadata, chatFiles, regVars, ticks, busVars>>
    /\ UNCHANGED <<skillVars, uiVars>>

\* setSubroutineConfig(config): the only config write, on the current chat.
\* NoConfig stands for the host dropping the block (chat deleted or reset).
SetSubroutineConfig(config) ==
    /\ chatMetadata[currentChat] # config
    /\ chatMetadata' = [chatMetadata EXCEPT ![currentChat] = config]
    /\ lastOp' = Op("setSubroutineConfig", currentChat, "")
    /\ emitted' = <<>>
    /\ UNCHANGED <<currentChat, chatFiles, regVars, ticks, busVars>>
    /\ UNCHANGED <<skillVars, uiVars>>

\* ---------------------------------------------------------- tick handler
\* One suspended onTick invocation: where it waits, and its locals.
\* loopState is the intervalId of the LoopState object fireHeartbeat holds
\* (0 before fireHeartbeat), chatData the chat array it loaded and pushes
\* to, toolCalls the tool calls of the first result not yet processed.
Tick(chatId, pc, config, loopState, chatData, toolCalls) ==
    [ chatId |-> chatId, pc |-> pc, config |-> config, loopState |-> loopState,
      chatData |-> chatData, toolCalls |-> toolCalls ]

\* invocations that are resumed only while their session has a LoopState
Suspended_WhileLoopLives ==
    {p \in BagToSet(ticks) : runningLoops[p.chatId] # NoLoop}
Suspended == BagToSet(ticks)
Resume(p) == ticks (-) SetToBag({p})
CyclePcs == {"loadChat", "saveHeartbeat", "generate1", "invokeTool", "saveTool",
             "generate2", "saveAutoQueue", "generate3"}

\* fireHeartbeat without its `if (!loopState) return`
FireHeartbeat_NoLoopStateCheck(chatId, config, others) ==
    LET loopState == runningLoops[chatId] IN
    IF loopState = NoLoop
    THEN /\ ticks' = others (+) SetToBag({Tick(chatId, "loadChat", config,
                                               0, <<>>, <<>>)})
         /\ UNCHANGED isGenerating
    ELSE /\ isGenerating' = [isGenerating EXCEPT ![loopState.intervalId] = TRUE]
         /\ ticks' = others (+) SetToBag({Tick(chatId, "loadChat", config,
                                               loopState.intervalId, <<>>, <<>>)})

\* fireHeartbeat(chatId, config) up to its first await; `others` are the
\* other suspended invocations.
FireHeartbeat(chatId, config, others) ==
    LET loopState == runningLoops[chatId] IN
    IF loopState = NoLoop
    THEN /\ ticks' = others
         /\ UNCHANGED isGenerating
    ELSE /\ isGenerating' = [isGenerating EXCEPT ![loopState.intervalId] = TRUE]
         /\ ticks' = others (+) SetToBag({Tick(chatId, "loadChat", config,
                                               loopState.intervalId, <<>>, <<>>)})

\* fireHeartbeat ending without its finally block
Finally_NoReset(p) ==
    /\ UNCHANGED isGenerating
    /\ ticks' = Resume(p)

\* the finally block of fireHeartbeat: the invocation p is over
Finally(p) ==
    /\ isGenerating' = [isGenerating EXCEPT ![p.loopState] = FALSE]
    /\ ticks' = Resume(p)

\* onTick without the isGenerating guard
onTickPath_NoGuard(chatId) ==
    LET loopState == runningLoops[chatId] IN
    IF loopState = NoLoop THEN "stale"
    ELSE LET config == getSubroutineConfig(chatId) IN
         IF config = NoConfig THEN "stopped"
         ELSE CASE config.triggerType = "time" -> "fire"
                [] config.triggerType = "tool" ->
                     IF config.toolName = "" THEN "nofire" ELSE "evalTool"
                [] config.triggerType = "api" ->
                     IF config.apiUrl = "" THEN "nofire" ELSE "fetch"
                [] OTHER -> "nofire"

\* onTick whose time trigger polls the tool when a toolName is set
onTickPath_TimePollsTool(chatId) ==
    LET loopState == runningLoops[chatId] IN
    IF loopState = NoLoop THEN "stale"
    ELSE IF isGenerating[loopState.intervalId] THEN "skipped"
    ELSE LET config == getSubroutineConfig(chatId) IN
         IF config = NoConfig THEN "stopped"
         ELSE CASE config.triggerType = "time" -> IF config.toolName = "" THEN "fire" ELSE "evalTool"
                [] config.triggerType = "tool" ->
                     IF config.toolName = "" THEN "nofire" ELSE "evalTool"
                [] config.triggerType = "api" ->
                     IF config.apiUrl = "" THEN "nofire" ELSE "fetch"
                [] OTHER -> "nofire"

\* onTick whose tool trigger does not check toolName
onTickPath_NoToolNameCheck(chatId) ==
    LET loopState == runningLoops[chatId] IN
    IF loopState = NoLoop THEN "stale"
    ELSE IF isGenerating[loopState.intervalId] THEN "skipped"
    ELSE LET config == getSubroutineConfig(chatId) IN
         IF config = NoConfig THEN "stopped"
         ELSE CASE config.triggerType = "time" -> "fire"
                [] config.triggerType = "tool" ->
                     "evalTool"
                [] config.triggerType = "api" ->
                     IF config.apiUrl = "" THEN "nofire" ELSE "fetch"
                [] OTHER -> "nofire"

\* onTick that stops the loop on an unknown trigger type
onTickPath_UnknownStops(chatId) ==
    LET loopState == runningLoops[chatId] IN
    IF loopState = NoLoop THEN "stale"
    ELSE IF isGenerating[loopState.intervalId] THEN "skipped"
    ELSE LET config == getSubroutineConfig(chatId) IN
         IF config = NoConfig THEN "stopped"
         ELSE CASE config.triggerType = "time" -> "fire"
                [] config.triggerType = "tool" ->
                     IF config.toolName = "" THEN "nofire" ELSE "evalTool"
                [] config.triggerType = "api" ->
                     IF config.apiUrl = "" THEN "nofire" ELSE "fetch"
                [] OTHER -> "stopped"

\* the path onTick takes up to its first await
onTickPath(chatId) ==
    LET loopState == runningLoops[chatId] IN
    IF loopState = NoLoop THEN "stale"
    ELSE IF isGenerating[loopState.intervalId] THEN "skipped"
    ELSE LET config == getSubroutineConfig(chatId) IN
         IF config = NoConfig THEN "stopped"
         ELSE CASE config.triggerType = "time" -> "fire"
                [] config.triggerType = "tool" ->
                     IF config.toolName = "" THEN "nofire" ELSE "evalTool"
                [] config.triggerType = "api" ->
                     IF config.apiUrl = "" THEN "nofire" ELSE "fetch"
                [] OTHER -> "nofire"

\* async function onTick(chatId): the interval timer t fires
OnTick(t, maxTicks) ==
    LET chatId == t.chatId
        path   == onTickPath(chatId)
        config == getSubroutineConfig(chatId)
    IN  /\ t \in timers
        /\ Len(chatFiles[chatId]) < MaxTurns
        /\ lastOp' = Op("onTick", chatId, path)
        /\ CASE path = "stopped" ->
                  /\ SetRegistry(stopLoop(Registry, chatId))
                  /\ UNCHANGED ticks
             [] path = "fire" ->
                  /\ BagCardinality(ticks) < maxTicks
                  /\ FireHeartbeat(chatId, config, ticks)
                  /\ emitted' = <<>>
                  /\ UNCHANGED <<runningLoops, timers, nextIntervalId>>
             [] path \in {"evalTool", "fetch"} ->
                  /\ BagCardinality(ticks) < maxTicks
                  /\ ticks' = ticks (+) SetToBag({Tick(chatId, path, config, 0, <<>>, <<>>)})
                  /\ emitted' = <<>>
                  /\ UNCHANGED regVars
             [] OTHER ->
                  /\ emitted' = <<>>
                  /\ UNCHANGED <<regVars, ticks>>
        /\ UNCHANGED <<envVars, chatFiles, busVars>>
        /\ UNCHANGED <<skillVars, uiVars>>

\* ------------------------------------------------------ trigger evaluators
\* resultStr.includes(condition)
Includes(str, sub) ==
    \E i \in 0..(Len(str) - Len(sub)) : SubSeq(str, i + 1, i + Len(sub)) = sub

\* A tool invocation settles with an outcome [kind, value]: it returns a
\* string (value holds its characters), an object, undefined or an Error
\* value, or it throws.
ObjectChars == <<"[", "o", "b", "j", "e", "c", "t", " ", "O", "b", "j", "e", "c", "t", "]">>

\* String(result || '')
String(outcome) ==
    CASE outcome.kind = "string" -> outcome.value
      [] outcome.kind = "object" -> ObjectChars
      [] OTHER                   -> <<>>

\* evaluateToolTrigger without its `result instanceof Error` test
evaluateToolTrigger_NoErrorCheck(config, outcome) ==
    IF outcome.kind = "throw" THEN FALSE
    ELSE Includes(String(outcome), config.toolCondition)

\* evaluateToolTrigger after invokeFunctionTool(config.toolName, {}) settled
evaluateToolTrigger(config, outcome) ==
    IF outcome.kind \in {"throw", "error"} THEN FALSE
    ELSE Includes(String(outcome), config.toolCondition)

ToolTriggerReturn(p, outcome) ==
    /\ p \in Suspended /\ p.pc = "evalTool"
    /\ LET shouldFire == evaluateToolTrigger(p.config, outcome) IN
       /\ lastOp' = Op("toolTrigger", p.chatId, IF shouldFire THEN "fire" ELSE "nofire")
       /\ IF shouldFire
          THEN FireHeartbeat(p.chatId, p.config, Resume(p))
          ELSE /\ ticks' = Resume(p)
               /\ UNCHANGED isGenerating
    /\ emitted' = <<>>
    /\ UNCHANGED <<envVars, chatFiles, runningLoops, timers, nextIntervalId,
                   busVars>>
    /\ UNCHANGED <<skillVars, uiVars>>

Whitespace == {" ", "\n"}
RECURSIVE TrimStart(_)
TrimStart(str) ==
    IF str # <<>> /\ Head(str) \in Whitespace THEN TrimStart(Tail(str)) ELSE str
RECURSIVE TrimEnd(_)
TrimEnd(str) ==
    IF str # <<>> /\ str[Len(str)] \in Whitespace
    THEN TrimEnd(SubSeq(str, 1, Len(str) - 1)) ELSE str
Trim(str) == TrimEnd(TrimStart(str))

LowerChar(ch) ==
    CASE ch = "N" -> "n" [] ch = "O" -> "o" [] ch = "E" -> "e"
      [] ch = "U" -> "u" [] ch = "L" -> "l" [] OTHER -> ch
ToLowerCase(str) == [i \in 1..Len(str) |-> LowerChar(str[i])]

EmptyBodies == { <<>>, <<"n","u","l","l">>, <<"n","o","n","e">>,
                 <<"[","]">>, <<"{","}">> }

\* evaluateApiTrigger without the trim()
evaluateApiTrigger_NoTrim(text) ==
    LET body  == text
        empty == ToLowerCase(body) \in EmptyBodies
    IN  ~empty

\* evaluateApiTrigger on the response text
evaluateApiTrigger(text) ==
    LET body  == Trim(text)
        empty == ToLowerCase(body) \in EmptyBodies
    IN  ~empty

\* evaluateApiTrigger after fetch(config.apiUrl) settled
FetchReturn(p, ok) ==
    /\ p \in Suspended /\ p.pc = "fetch"
    /\ lastOp' = Op("fetch", p.chatId, IF ok THEN "response" ELSE "nofire")
    /\ ticks' = IF ok THEN Resume(p) (+) SetToBag({[p EXCEPT !.pc = "text"]})
                ELSE Resume(p)
    /\ emitted' = <<>>
    /\ UNCHANGED <<envVars, chatFiles, regVars, busVars>>
    /\ UNCHANGED <<skillVars, uiVars>>

\* evaluateApiTrigger after res.text() settled
\* with outcome [kind: "value" | "throw", value]
TextReturn(p, outcome) ==
    /\ p \in Suspended /\ p.pc = "text"
    /\ LET shouldFire == outcome.kind = "value" /\ evaluateApiTrigger(outcome.value) IN
       /\ lastOp' = Op("apiTrigger", p.chatId, IF shouldFire THEN "fire" ELSE "nofire")
       /\ IF shouldFire
          THEN FireHeartbeat(p.chatId, p.config, Resume(p))
          ELSE /\ ticks' = Resume(p)
               /\ UNCHANGED isGenerating
    /\ emitted' = <<>>
    /\ UNCHANGED <<envVars, chatFiles, runningLoops, timers, nextIntervalId,
                   busVars>>
    /\ UNCHANGED <<skillVars, uiVars>>

\* ------------------------------------------------- heartbeat / generation
\* config.heartbeatMessage || '[heartbeat]'
OrDefault(text, default) == IF text = "" THEN default ELSE text

heartbeat(config) ==
    [ is_user |-> TRUE, name |-> "User",
      mes |-> OrDefault(config.heartbeatMessage, "[heartbeat]") ]

\* `[Tool: ${name}]\n${toolResult}` with the id of the call
toolMessage(toolCall, outcome) ==
    [ is_user |-> FALSE, name |-> "System",
      mes |-> [tool |-> toolCall.name,
               toolResult |-> IF outcome.kind = "string" THEN outcome.value
                              ELSE <<outcome.kind>>],
      tool_call_id |-> toolCall.id ]

autoQueueMsg(config) ==
    [ is_user |-> TRUE, name |-> "User",
      mes |-> OrDefault(config.autoQueuePrompt,
                        "Continue or call the finish tool if done.") ]

\* JSON.parse(toolCall.function.arguments || '{}') returns
ValidJson == {"", "{}"}

\* The for loop over result.tool_calls up to its next await: a call whose
\* arguments do not parse throws into the inner catch and is passed over.
RECURSIVE NextInvocable(_)
NextInvocable(toolCalls) ==
    IF toolCalls = <<>> THEN <<>>
    ELSE IF Head(toolCalls).arguments \notin ValidJson THEN NextInvocable(Tail(toolCalls))
    ELSE toolCalls

\* continue the tool loop of p with the calls `toolCalls` still to process
ToolLoop(p, chatData, toolCalls) ==
    LET rest == NextInvocable(toolCalls) IN
    [p EXCEPT !.chatData = chatData, !.toolCalls = rest,
              !.pc = IF rest = <<>> THEN "generate2" ELSE "invokeTool"]

\* a failed load that takes the session's loop down with it
LoadChatReturn_FailureStopsLoop(p, ok) ==
    /\ p \in Suspended /\ p.pc = "loadChat"
    /\ lastOp' = Op("loadChat", p.chatId, IF ok THEN "loaded" ELSE "failed")
    /\ IF ok
       THEN /\ ticks' = Resume(p) (+) SetToBag({[p EXCEPT
                   !.chatData = Append(chatFiles[p.chatId], heartbeat(p.config)),
                   !.pc = "saveHeartbeat"]})
            /\ emitted' = <<>>
            /\ UNCHANGED regVars
       ELSE /\ ticks' = Resume(p)
            /\ Install(stopLoop(Registry, p.chatId))
    /\ UNCHANGED <<envVars, chatFiles, busVars>>
    /\ UNCHANGED <<skillVars, uiVars>>

\* fireHeartbeat after loadChatData(chatId) settled; ok = a chat was loaded
LoadChatReturn(p, ok) ==
    /\ p \in Suspended /\ p.pc = "loadChat"
    /\ lastOp' = Op("loadChat", p.chatId, IF ok THEN "loaded" ELSE "failed")
    /\ IF ok
       THEN /\ ticks' = Resume(p) (+) SetToBag({[p EXCEPT
                   !.chatData = Append(chatFiles[p.chatId], heartbeat(p.config)),
                   !.pc = "saveHeartbeat"]})
            /\ UNCHANGED isGenerating
       ELSE Finally(p)
    /\ emitted' = <<>>
    /\ UNCHANGED <<envVars, chatFiles, runningLoops, timers, nextIntervalId,
                   busVars>>
    /\ UNCHANGED <<skillVars, uiVars>>

\* fireHeartbeat after saveChatData(chatId, chatData) settled; a failed
\* save is caught and logged inside saveChatData
SaveChatReturn(p, ok) ==
    /\ p \in Suspended /\ p.pc \in {"saveHeartbeat", "saveTool", "saveAutoQueue"}
    /\ lastOp' = Op(p.pc, p.chatId, IF ok THEN "saved" ELSE "failed")
    /\ chatFiles' = IF ok THEN [chatFiles EXCEPT ![p.chatId] = p.chatData]
                    ELSE chatFiles
    /\ ticks' = Resume(p) (+) SetToBag({
          CASE p.pc = "saveHeartbeat" -> [p EXCEPT !.pc = "generate1"]
            [] p.pc = "saveTool"      -> ToolLoop(p, p.chatData, Tail(p.toolCalls))
            [] p.pc = "saveAutoQueue" -> [p EXCEPT !.pc = "generate3"] })
    /\ emitted' = <<>>
    /\ UNCHANGED <<envVars, regVars, busVars>>
    /\ UNCHANGED <<skillVars, uiVars>>

\* the auto-queue step that re-prompts whatever the final result requested
AutoQueue_IgnoresToolCalls(p, tool_calls) ==
    IF p.config.autoQueue
    THEN /\ ticks' = Resume(p) (+) SetToBag({[p EXCEPT
                !.chatData = Append(p.chatData, autoQueueMsg(p.config)),
                !.toolCalls = <<>>,
                !.pc = "saveAutoQueue"]})
         /\ UNCHANGED isGenerating
    ELSE Finally(p)

\* the auto-queue step on the final result
AutoQueue(p, tool_calls) ==
    IF p.config.autoQueue /\ tool_calls = <<>>
    THEN /\ ticks' = Resume(p) (+) SetToBag({[p EXCEPT
                !.chatData = Append(p.chatData, autoQueueMsg(p.config)),
                !.toolCalls = <<>>,
                !.pc = "saveAutoQueue"]})
         /\ UNCHANGED isGenerating
    ELSE Finally(p)

\* fireHeartbeat with the tool loop repeated for the post-tool result
GenerateReturn_ToolLoopAgain(p, outcome) ==
    /\ p \in Suspended /\ p.pc \in {"generate1", "generate2", "generate3"}
    /\ lastOp' = Op(p.pc, p.chatId,
                    IF outcome.kind = "result" /\ outcome.tool_calls # <<>>
                    THEN "tool_calls" ELSE outcome.kind)
    /\ IF outcome.kind = "throw" \/ p.pc = "generate3"
       THEN Finally(p)
       ELSE IF p.pc \in {"generate1", "generate2"} /\ outcome.tool_calls # <<>>
       THEN /\ ticks' = Resume(p) (+) SetToBag({ToolLoop(p, p.chatData, outcome.tool_calls)})
            /\ UNCHANGED isGenerating
       ELSE AutoQueue(p, outcome.tool_calls)
    /\ emitted' = <<>>
    /\ UNCHANGED <<envVars, chatFiles, runningLoops, timers, nextIntervalId,
                   busVars>>
    /\ UNCHANGED <<skillVars, uiVars>>

\* fireHeartbeat after generateFromChatId(chatId) settled
\* with outcome [kind: "result" | "throw", tool_calls]
GenerateReturn(p, outcome) ==
    /\ p \in Suspended /\ p.pc \in {"generate1", "generate2", "generate3"}
    /\ lastOp' = Op(p.pc, p.chatId,
                    IF outcome.kind = "result" /\ outcome.tool_calls # <<>>
                    THEN "tool_calls" ELSE outcome.kind)
    /\ IF outcome.kind = "throw" \/ p.pc = "generate3"
       THEN Finally(p)
       ELSE IF p.pc = "generate1" /\ outcome.tool_calls # <<>>
       THEN /\ ticks' = Resume(p) (+) SetToBag({ToolLoop(p, p.chatData, outcome.tool_calls)})
            /\ UNCHANGED isGenerating
       ELSE AutoQueue(p, outcome.tool_calls)
    /\ emitted' = <<>>
    /\ UNCHANGED <<envVars, chatFiles, runningLoops, timers, nextIntervalId,
                   busVars>>
    /\ UNCHANGED <<skillVars, uiVars>>

\* the tool loop writing running:false into the config when the finish tool
\* returned
InvokeToolReturn_FinishClearsRunning(p, outcome) ==
    /\ p \in Suspended /\ p.pc = "invokeTool"
    /\ lastOp' = Op("invokeTool", p.chatId, outcome.kind)
    /\ ticks' = Resume(p) (+) SetToBag({
          IF outcome.kind = "throw"
          THEN ToolLoop(p, p.chatData, Tail(p.toolCalls))
          ELSE [p EXCEPT
                  !.chatData = Append(@, toolMessage(Head(p.toolCalls), outcome)),
                  !.pc = "saveTool"] })
    /\ chatMetadata' =
          IF outcome.kind # "throw" /\ Head(p.toolCalls).name = "finish"
             /\ chatMetadata[currentChat] # NoConfig
          THEN [chatMetadata EXCEPT ![currentChat].running = FALSE]
          ELSE chatMetadata
    /\ emitted' = <<>>
    /\ UNCHANGED <<currentChat, chatFiles, regVars, busVars>>
    /\ UNCHANGED <<skillVars, uiVars>>

\* fireHeartbeat after invokeFunctionTool(name, arguments) settled
InvokeToolReturn(p, outcome) ==
    /\ p \in Suspended /\ p.pc = "invokeTool"
    /\ lastOp' = Op("invokeTool", p.chatId, outcome.kind)
    /\ ticks' = Resume(p) (+) SetToBag({
          IF outcome.kind = "throw"
          THEN ToolLoop(p, p.chatData, Tail(p.toolCalls))
          ELSE [p EXCEPT
                  !.chatData = Append(@, toolMessage(Head(p.toolCalls), outcome)),
                  !.pc = "saveTool"] })
    /\ emitted' = <<>>
    /\ UNCHANGED <<envVars, chatFiles, regVars, busVars>>
    /\ UNCHANGED <<skillVars, uiVars>>

\* ------------------------------------- skills manager, skill import
\* A zip archive is the sequence of the keys of zip.files, and a key is
\* the sequence of its segments between slashes: "s/SKILL.md" is
\* <<"s", "SKILL.md">>, the directory entry "s/" is <<"s", "">>.
NoPath == <<>>          \* findSkillMd returning null

\* the first index of a non-empty set of indices
First(indices) == CHOOSE i \in indices : \A j \in indices : i <= j

\* findSkillMd accepting a SKILL.md at any depth
findSkillMd_AnyDepth(zip) ==
    IF \E i \in 1..Len(zip) : zip[i] = <<"SKILL.md">> THEN <<"SKILL.md">>
    ELSE LET deep == {i \in 1..Len(zip) :
                        Len(zip[i]) >= 2 /\ zip[i][Len(zip[i])] = "SKILL.md"}
         IN  IF deep = {} THEN NoPath ELSE zip[First(deep)]

\* function findSkillMd(zip)
findSkillMd(zip) ==
    IF \E i \in 1..Len(zip) : zip[i] = <<"SKILL.md">> THEN <<"SKILL.md">>
    ELSE LET deep == {i \in 1..Len(zip) :
                        Len(zip[i]) = 2 /\ zip[i][2] = "SKILL.md"}
         IN  IF deep = {} THEN NoPath ELSE zip[First(deep)]

\* function parseSkillMd(content), the name; a SKILL.md is [frontMatter,
\* name]: whether it opens with a front-matter block, and the name given
\* in that block or, without a block, in the first h1 ("" for none)
parseSkillMd(content) ==
    IF content.name # "" THEN content.name ELSE "Unnamed Skill"

\* baseDir of importSkillFromZip: the segments before the file name
baseDir(skillMdPath) == SubSeq(skillMdPath, 1, Len(skillMdPath) - 1)

\* path.startsWith(baseDir), baseDir ending with a slash or empty
StartsWith(path, base) ==
    Len(path) > Len(base) /\ SubSeq(path, 1, Len(base)) = base

\* file.dir: the key ends with a slash
IsDir(path) == path[Len(path)] = ""

\* the entries of zip.files from index i on that the for loop of
\* importSkillFromZip reads
ToRead(zip, base, i) ==
    {j \in i..Len(zip) : ~IsDir(zip[j]) /\ StartsWith(zip[j], base)}

\* One suspended onImportZip invocation: the archive, where it waits, the
\* path of SKILL.md, its content, the files read so far and the index of
\* the entry being read.
Import(zip, pc, skillMdPath, skillMdContent, files, next) ==
    [ zip |-> zip, pc |-> pc, skillMdPath |-> skillMdPath,
      skillMdContent |-> skillMdContent, files |-> files, next |-> next ]

NoContent == [frontMatter |-> FALSE, name |-> ""]
NoFiles   == <<>>       \* const files = {}

Importing == BagToSet(imports)
Ended(p) == imports (-) SetToBag({p})

\* function buildSkill({ name, description, skillMdContent, files })
buildSkill(name, skillMdContent, files) ==
    [ name |-> name, skillMdContent |-> skillMdContent, files |-> files ]

\* The for loop of importSkillFromZip from entry i on, up to its next
\* await; when no entry is left: buildSkill, return to onImportZip, and
\* addSkill up to its await (_skills.push, localforage.setItem).
ReadFiles(p, skillMdContent, files, i) ==
    LET base == baseDir(p.skillMdPath)
        left == ToRead(p.zip, base, i)
    IN  IF left # {}
        THEN /\ imports' = Ended(p) (+) SetToBag({[p EXCEPT
                    !.pc = "readFile", !.skillMdContent = skillMdContent,
                    !.files = files, !.next = First(left)]})
             /\ UNCHANGED skills
        ELSE /\ imports' = Ended(p) (+) SetToBag({[p EXCEPT
                    !.pc = "setItem", !.skillMdContent = skillMdContent,
                    !.files = files, !.next = 0]})
             /\ skills' = Append(skills,
                    buildSkill(parseSkillMd(skillMdContent),
                               skillMdContent, files))

\* async function onImportZip(e) up to `await getJSZip()`; files is
\* e.target.files, each file given by the archive it holds
OnImportZip(files) ==
    /\ lastOp' = Op("onImportZip", NoChatId,
                    IF files = <<>> THEN "nofile" ELSE "importing")
    /\ IF files = <<>>
       THEN UNCHANGED imports
       ELSE /\ Len(skills) < MaxSkills
            /\ BagCardinality(imports) < MaxImports
            /\ imports' = imports (+) SetToBag({
                  Import(files[1], "getJSZip", NoPath, NoContent, NoFiles, 0)})
    /\ UNCHANGED <<skills, skillStore, JSZipLoaded>>
    /\ UNCHANGED <<envVars, chatFiles, regVars, ticks, busVars, emitted, uiVars>>

\* getJSZip() settled: the script loaded, or (only while _JSZip is not
\* set) its load failed; the failure is caught by onImportZip
GetJSZipReturn(p, ok) ==
    /\ p \in Importing /\ p.pc = "getJSZip"
    /\ ok \/ ~JSZipLoaded
    /\ lastOp' = Op("getJSZip", NoChatId, IF ok THEN "loaded" ELSE "error")
    /\ JSZipLoaded' = (JSZipLoaded \/ ok)
    /\ imports' = IF ok THEN Ended(p) (+) SetToBag({[p EXCEPT !.pc = "loadAsync"]})
                  ELSE Ended(p)
    /\ UNCHANGED <<skills, skillStore>>
    /\ UNCHANGED <<envVars, chatFiles, regVars, ticks, busVars, emitted, uiVars>>

\* new JSZip().loadAsync(zipFile) settled, then findSkillMd; a missing
\* SKILL.md throws 'Invalid skill: ...' into the catch of onImportZip,
\* which shows the message as an error toast
LoadAsyncReturn(p, ok) ==
    /\ p \in Importing /\ p.pc = "loadAsync"
    /\ LET skillMdPath == findSkillMd(p.zip) IN
       /\ lastOp' = Op("loadAsync", NoChatId,
                       IF ~ok THEN "error"
                       ELSE IF skillMdPath = NoPath THEN "invalid" ELSE "found")
       /\ imports' = IF ok /\ skillMdPath # NoPath
                     THEN Ended(p) (+) SetToBag({[p EXCEPT
                             !.pc = "readSkillMd", !.skillMdPath = skillMdPath]})
                     ELSE Ended(p)
    /\ UNCHANGED <<skills, skillStore, JSZipLoaded>>
    /\ UNCHANGED <<envVars, chatFiles, regVars, ticks, busVars, emitted, uiVars>>

\* zip.file(skillMdPath).async('string') settled
\* with outcome [kind: "value" | "throw", value]
ReadSkillMdReturn(p, outcome) ==
    /\ p \in Importing /\ p.pc = "readSkillMd"
    /\ lastOp' = Op("readSkillMd", NoChatId,
                    IF outcome.kind = "value" THEN "read" ELSE "error")
    /\ IF outcome.kind = "value"
       THEN ReadFiles(p, outcome.value, NoFiles, 1)
       ELSE imports' = Ended(p) /\ UNCHANGED skills
    /\ UNCHANGED <<skillStore, JSZipLoaded>>
    /\ UNCHANGED <<envVars, chatFiles, regVars, ticks, busVars, emitted, uiVars>>

\* file.async('string') of the entry p.next settled; a binary file is
\* skipped
ReadFileReturn(p, ok) ==
    /\ p \in Importing /\ p.pc = "readFile"
    /\ lastOp' = Op("readFile", NoChatId, IF ok THEN "read" ELSE "skipped")
    /\ LET base         == baseDir(p.skillMdPath)
           path         == p.zip[p.next]
           relativePath == SubSeq(path, Len(base) + 1, Len(path))
           files        == IF ok THEN (relativePath :> "text") @@ p.files
                           ELSE p.files
       IN  ReadFiles(p, p.skillMdContent, files, p.next + 1)
    /\ UNCHANGED <<skillStore, JSZipLoaded>>
    /\ UNCHANGED <<envVars, chatFiles, regVars, ticks, busVars, emitted, uiVars>>

\* localforage.setItem(SKILLS_STORE_KEY, _skills) settled: the array it
\* was handed is stored as it is when the write is made
SetItemReturn(p, ok) ==
    /\ p \in Importing /\ p.pc = "setItem"
    /\ lastOp' = Op("setItem", NoChatId, IF ok THEN "success" ELSE "error")
    /\ skillStore' = IF ok THEN skills ELSE skillStore
    /\ imports' = Ended(p)
    /\ UNCHANGED <<skills, JSZipLoaded>>
    /\ UNCHANGED <<envVars, chatFiles, regVars, ticks, busVars, emitted, uiVars>>

\* ---------------------------------------------------------- environment
NoToolCalls == [kind |-> "result", tool_calls |-> <<>>]
Throw       == [kind |-> "throw"]

\* the exported API and the host, on the chats `chats`
LifecycleNext(chats, configs) ==
    \/ \E c \in chats : StartLoop(c)
    \/ \E c \in chats : StopLoop(c)
    \/ \E c \in chats \cup {NoChatId} : OnConfigChanged(c)
    \/ \E c \in chats : SwitchChat(c)
    \/ \E cfg \in configs \cup {NoConfig} : SetSubroutineConfig(cfg)

\* ticks of time-triggered loops whose generations request no tools
TimeCycleNext ==
    \/ \E t \in timers : OnTick(t, MaxMainTicks)
    \/ \E p \in Suspended, ok \in BOOLEAN : LoadChatReturn(p, ok)
    \/ \E p \in Suspended, ok \in BOOLEAN : SaveChatReturn(p, ok)
    \/ \E p \in Suspended, o \in {NoToolCalls, Throw} : GenerateReturn(p, o)

\* Spec: the loop registry under the exported API, config-changed events,
\* chat switches, config writes and the ticks of time-triggered loops.
Init == InitWith(MainChats, {}) /\ currentChat = "A"

Next ==
    \/ LifecycleNext(MainChats, MainConfigs)
    \/ TimeCycleNext

Spec == Init /\ [][Next]_vars

\* SpecReconcile: the Reconciler alone.  Every config write is followed by
\* a config-changed event for the chat written; subroutine-created events
\* arrive at any time; the open chat changes at any time.
ReconcileNext ==
    \/ \E cfg \in MainConfigs \cup {NoConfig} : WriteConfig(cfg)
    \/ \E c \in MainChats : DeliverConfigChanged(c)
    \/ \E c \in MainChats \cup {NoChatId} : OnSubroutineCreated(c)
    \/ \E c \in MainChats : SettleElapsed(c)
    \/ \E c \in MainChats : SwitchChat(c)

SpecReconcile == Init /\ [][ReconcileNext]_vars

\* SpecResume: init() over three chats whose configs the previous run left.
ResumeInit == InitWith(AllChats, MainConfigs)

ResumeNext ==
    \/ ResumeAll(<<"A", "B", "C">>)
    \/ ResumeAll(<<"C", "B", "A">>)
    \/ ResumeAllFailed

SpecResume == ResumeInit /\ [][ResumeNext]_vars

\* SpecCycle: one chat, every trigger kind the panel offers, generations
\* that request tools, collaborators that fail.
CycleChats == {"A"}
CycleConfigs ==
    { [defaultSubroutineConfig EXCEPT !.running = TRUE, !.intervalSeconds = 10],
      [defaultSubroutineConfig EXCEPT !.running = TRUE, !.triggerType = "tool",
          !.toolName = "check_email", !.toolCondition = <<"o", "k">>,
          !.autoQueue = TRUE] }

ToolCall(id, name, arguments) == [id |-> id, name |-> name, arguments |-> arguments]
ToolOutcomes ==
    { [kind |-> "string", value |-> <<"o", "k">>],
      [kind |-> "string", value |-> <<"n", "o">>],
      [kind |-> "error", value |-> <<>>],
      [kind |-> "throw", value |-> <<>>] }
GenerateOutcomes ==
    { NoToolCalls, Throw,
      [kind |-> "result", tool_calls |-> <<ToolCall("c1", "finish", "{}")>>] }

CycleInit == InitWith(CycleChats, CycleConfigs) /\ chatMetadata["A"] # NoConfig

CycleNext ==
    \/ \E c \in CycleChats : StartLoop(c)
    \/ \E c \in CycleChats : StopLoop(c)
    \/ \E c \in CycleChats : OnConfigChanged(c)
    \/ \E t \in timers : OnTick(t, MaxTicks)
    \/ \E p \in Suspended, o \in ToolOutcomes : ToolTriggerReturn(p, o)
    \/ \E p \in Suspended, ok \in BOOLEAN : LoadChatReturn(p, ok)
    \/ \E p \in Suspended, ok \in BOOLEAN : SaveChatReturn(p, ok)
    \/ \E p \in Suspended, o \in GenerateOutcomes : GenerateReturn(p, o)
    \/ \E p \in Suspended, o \in ToolOutcomes : InvokeToolReturn(p, o)

SpecCycle == CycleInit /\ [][CycleNext]_vars

\* SpecTools: one session, one invocation of the tick handler in flight
\* at a time, every trigger kind, generations
\* that request two tools, every collaborator failing or succeeding.
ToolsConfigs ==
    { [defaultSubroutineConfig EXCEPT !.running = TRUE, !.autoQueue = TRUE,
          !.autoQueuePrompt = ""],
      [defaultSubroutineConfig EXCEPT !.running = TRUE, !.triggerType = "tool",
          !.toolName = "check_email", !.toolCondition = <<"o", "k">>],
      [defaultSubroutineConfig EXCEPT !.running = TRUE, !.triggerType = "api",
          !.apiUrl = "http://localhost/poll", !.autoQueue = TRUE] }

TwoToolCalls ==
    <<ToolCall("c1", "finish", "{}"), ToolCall("c2", "check_email", "")>>
BadArgsToolCalls ==
    <<ToolCall("c1", "finish", "{"), ToolCall("c2", "check_email", "")>>
ToolsGenerateOutcomes ==
    { NoToolCalls, Throw,
      [kind |-> "result", tool_calls |-> TwoToolCalls],
      [kind |-> "result", tool_calls |-> BadArgsToolCalls] }
TextOutcomes ==
    { [kind |-> "value", value |-> <<"o", "k">>],
      [kind |-> "value", value |-> <<" ", "[", "]", "\n">>],
      [kind |-> "throw", value |-> <<>>] }

ToolsInit ==
    /\ InitWith(CycleChats, ToolsConfigs)
    /\ chatMetadata["A"] # NoConfig

\* a collaborator call of one of the suspended invocations ps settles
ReturnsOf(ps) ==
    \/ \E p \in ps, o \in ToolOutcomes : ToolTriggerReturn(p, o)
    \/ \E p \in ps, ok \in BOOLEAN : FetchReturn(p, ok)
    \/ \E p \in ps, o \in TextOutcomes : TextReturn(p, o)
    \/ \E p \in ps, ok \in BOOLEAN : LoadChatReturn(p, ok)
    \/ \E p \in ps, ok \in BOOLEAN : SaveChatReturn(p, ok)
    \/ \E p \in ps, o \in ToolsGenerateOutcomes : GenerateReturn(p, o)
    \/ \E p \in ps, o \in ToolOutcomes : InvokeToolReturn(p, o)

ReturnNext == ReturnsOf(Suspended)

\* the invocations that hold the LoopState created with interval i
\* (0: those still evaluating their trigger)
Holding(i) == {p \in Suspended : p.loopState = i}

ToolsNext ==
    \/ \E c \in CycleChats : StartLoop(c)
    \/ \E c \in CycleChats : StopLoop(c)
    \/ \E t \in timers : OnTick(t, MaxMainTicks)
    \/ ReturnNext

SpecTools == ToolsInit /\ [][ToolsNext]_vars

\* SpecToolsFair: the same, and collaborator calls return: the invocations
\* holding one LoopState are not all left waiting forever.
SpecToolsFair ==
    SpecTools /\ \A i \in 0..MaxIntervalIds : WF_vars(ReturnsOf(Holding(i)))

\* SpecFailing: two sessions, one invocation of the tick handler in flight
\* at a time, a session store that rejects every write, and every other
\* collaborator failing or succeeding.
FailingInit ==
    /\ InitWith(MainChats, ToolsConfigs)
    /\ currentChat = "A"
    /\ \A c \in MainChats : chatMetadata[c] # NoConfig

FailingNext ==
    \/ \E c \in MainChats : StartLoop(c)
    \/ \E t \in timers : OnTick(t, MaxMainTicks)
    \/ \E p \in Suspended, o \in ToolOutcomes : ToolTriggerReturn(p, o)
    \/ \E p \in Suspended, ok \in BOOLEAN : FetchReturn(p, ok)
    \/ \E p \in Suspended, o \in TextOutcomes : TextReturn(p, o)
    \/ \E p \in Suspended, ok \in BOOLEAN : LoadChatReturn(p, ok)
    \/ \E p \in Suspended : SaveChatReturn(p, FALSE)
    \/ \E p \in Suspended, o \in ToolsGenerateOutcomes : GenerateReturn(p, o)
    \/ \E p \in Suspended, o \in ToolOutcomes : InvokeToolReturn(p, o)

SpecFailing == FailingInit /\ [][FailingNext]_vars

\* SpecTrigger: one session whose config is any of: a time trigger (with
\* and without the fields of the other kinds), a tool trigger with and
\* without toolName and toolCondition, an api trigger with and without
\* apiUrl, a trigger kind the runtime does not know.  Polls and fetches
\* settle with every kind of result.
TriggerConfigs ==
    { [defaultSubroutineConfig EXCEPT !.running = TRUE],
      [defaultSubroutineConfig EXCEPT !.running = TRUE,
          !.toolName = "check_email", !.apiUrl = "http://localhost/poll",
          !.autoQueue = TRUE],
      [defaultSubroutineConfig EXCEPT !.running = TRUE, !.triggerType = "tool",
          !.toolCondition = <<"o", "k">>],
      [defaultSubroutineConfig EXCEPT !.running = TRUE, !.triggerType = "tool",
          !.toolName = "check_email"],
      [defaultSubroutineConfig EXCEPT !.running = TRUE, !.triggerType = "tool",
          !.toolName = "check_email", !.toolCondition = <<"o", "k">>],
      [defaultSubroutineConfig EXCEPT !.running = TRUE, !.triggerType = "api"],
      [defaultSubroutineConfig EXCEPT !.running = TRUE, !.triggerType = "api",
          !.apiUrl = "http://localhost/poll"],
      [defaultSubroutineConfig EXCEPT !.running = TRUE, !.triggerType = "webhook"] }

TriggerToolOutcomes ==
    { [kind |-> "string", value |-> <<"o", "k">>],
      [kind |-> "string", value |-> <<"O", "K">>],
      [kind |-> "string", value |-> <<"n", "o", "k", "!">>],
      [kind |-> "string", value |-> <<"k", "o">>],
      [kind |-> "string", value |-> <<>>],
      [kind |-> "object", value |-> <<>>],
      [kind |-> "undefined", value |-> <<>>],
      [kind |-> "error", value |-> <<>>],
      [kind |-> "throw", value |-> <<>>] }

TriggerTextOutcomes ==
    { [kind |-> "value", value |-> <<>>],
      [kind |-> "value", value |-> <<"n", "u", "l", "l">>],
      [kind |-> "value", value |-> <<"N", "O", "N", "E">>],
      [kind |-> "value", value |-> <<"[", "]">>],
      [kind |-> "value", value |-> <<"{", "}">>],
      [kind |-> "value", value |-> <<" ", "[", "]", "\n">>],
      [kind |-> "value", value |-> <<" ", "\n">>],
      [kind |-> "value", value |-> <<"p", "e", "n", "d", "i", "n", "g">>],
      [kind |-> "value", value |-> <<"n", "u", "l", "l", "s">>],
      [kind |-> "value", value |-> <<"[", " ", "]">>],
      [kind |-> "throw", value |-> <<>>] }

TriggerInit ==
    /\ InitWith(CycleChats, TriggerConfigs)
    /\ chatMetadata["A"] # NoConfig

TriggerNext ==
    \/ \E c \in CycleChats : StartLoop(c)
    \/ \E c \in CycleChats : StopLoop(c)
    \/ \E t \in timers : OnTick(t, MaxMainTicks)
    \/ \E p \in Suspended, o \in TriggerToolOutcomes : ToolTriggerReturn(p, o)
    \/ \E p \in Suspended, ok \in BOOLEAN : FetchReturn(p, ok)
    \/ \E p \in Suspended, o \in TriggerTextOutcomes : TextReturn(p, o)
    \/ \E p \in Suspended, ok \in BOOLEAN : LoadChatReturn(p, ok)
    \/ \E p \in Suspended, ok \in BOOLEAN : SaveChatReturn(p, ok)
    \/ \E p \in Suspended, o \in {NoToolCalls, Throw} : GenerateReturn(p, o)

SpecTrigger == TriggerInit /\ [][TriggerNext]_vars

\* SpecSkills: the skills manager importing archives: with SKILL.md at the
\* root, one directory deep, two deep, absent, under another name, as a
\* directory; the library is what the previous run persisted.
RootArchive    == << <<"SKILL.md">>, <<"run.py">> >>
NestedArchive  == << <<"s", "">>, <<"README.md">>, <<"s", "SKILL.md">> >>
DeepArchive    == << <<"a", "">>, <<"a", "b", "">>, <<"a", "b", "SKILL.md">> >>
NoSkillArchive == << <<"README.md">>, <<"s", "run.py">> >>
LowerArchive   == << <<"s", "skill.md">> >>
DirArchive     == << <<"SKILL.md", "">>, <<"SKILL.md", "notes.md">> >>
EmptyArchive   == << >>
ZipArchives ==
    { RootArchive, NestedArchive, DeepArchive, NoSkillArchive, LowerArchive,
      DirArchive, EmptyArchive }

SkillMdOutcomes ==
    { [kind |-> "value", value |-> [frontMatter |-> TRUE, name |-> "My Skill"]],
      [kind |-> "value", value |-> [frontMatter |-> FALSE, name |-> ""]],
      [kind |-> "throw", value |-> NoContent] }

StoredLibraries ==
    { <<>>,
      <<buildSkill("My Skill", [frontMatter |-> TRUE, name |-> "My Skill"],
                   (<<"SKILL.md">> :> "text"))>> }

SkillsInit ==
    /\ chatMetadata = [c \in AllChats |-> NoConfig]
    /\ currentChat = "A"
    /\ chatFiles = [c \in AllChats |-> <<>>]
    /\ runningLoops = [c \in AllChats |-> NoLoop]
    /\ isGenerating = <<>>
    /\ timers = {}
    /\ nextIntervalId = 1
    /\ ticks = EmptyBag
    /\ settling = [c \in AllChats |-> 0]
    /\ notifications = {}
    /\ initPc = "ready"
    /\ emitted = <<>>
    /\ skillStore \in StoredLibraries
    /\ skills = skillStore
    /\ imports = EmptyBag
    /\ JSZipLoaded = FALSE
    /\ uiEvents = {}
    /\ metaCache = [c \in AllChats |-> NotCached]
    /\ pastChats = <<"A", "B">>
    /\ borderLeft = [c \in AllChats |-> ""]
    /\ scans = EmptyBag
    /\ mutationQueued = FALSE
    /\ observer = "waiting"
    /\ lastOp = Op("init", NoChatId, "")

SkillsNext ==
    \/ OnImportZip(<<>>)
    \/ \E zip \in ZipArchives : OnImportZip(<<zip>>)
    \/ \E p \in Importing, ok \in BOOLEAN : GetJSZipReturn(p, ok)
    \/ \E p \in Importing, ok \in BOOLEAN : LoadAsyncReturn(p, ok)
    \/ \E p \in Importing, o \in SkillMdOutcomes : ReadSkillMdReturn(p, o)
    \/ \E p \in Importing, ok \in BOOLEAN : ReadFileReturn(p, ok)
    \/ \E p \in Importing, ok \in BOOLEAN : SetItemReturn(p, ok)

SpecSkills == SkillsInit /\ [][SkillsNext]_vars

\* ------------------------------------------- chat list, settings panel
\* chat-list.js keeps one item per chat file in .past_chats; an item is
\* named by its chat.  A suspended scanChatList invocation is
\* [items, i, subroutineItems]: the static NodeList it iterates, the index
\* of the item whose metadata it fetches, the items it collected so far.
DefaultColor == "#4a90d9"

\* config && config.isSubroutine
IsSubroutine(config) ==
    config # NoConfig /\ config # NotCached /\ config.isSubroutine

\* the decoration scanChatList gives an item: `config.color || '#4a90d9'`
\* for a subroutine, '' otherwise
Decoration(config) ==
    IF IsSubroutine(config) THEN OrDefault(config.color, DefaultColor) ELSE ""

\* The for loop of scanChatList from item st.i on, up to its next await: an
\* item whose file is cached is decorated at once, the first one that is
\* not cached suspends the scan in fetchChatMetadataConfig.
RECURSIVE ScanFrom(_)
ScanFrom(st) ==
    IF st.i > Len(st.items) THEN st
    ELSE LET filename == st.items[st.i]
             config   == st.cache[filename]
         IN  IF config = NotCached THEN st
             ELSE ScanFrom([st EXCEPT
                    !.border[filename] = Decoration(config),
                    !.subroutineItems = IF IsSubroutine(config)
                                        THEN Append(@, filename) ELSE @,
                    !.i = @ + 1])

\* container.insertBefore(subroutineItems[i], container.firstChild) for
\* i = last .. 0: the subroutine items first, in their order, then the rest
Pin(list, subroutineItems) ==
    LET Pinned(c) == \E i \in 1..Len(subroutineItems) : subroutineItems[i] = c
        Rest(c)   == ~Pinned(c)
    IN  subroutineItems \o SelectSeq(list, Rest)

\* scanChatList() from its call to its first await or its end, and the
\* same after a fetch settled.  Every insertBefore moves a node, which the
\* attached observer records as a removal and an addition.
RunScan(st, others, queued) ==
    /\ metaCache' = st.cache
    /\ borderLeft' = st.border
    /\ IF st.i > Len(st.items)
       THEN /\ pastChats' = Pin(pastChats, st.subroutineItems)
            /\ mutationQueued' =
                 (queued \/ (observer' = "attached" /\ st.subroutineItems # <<>>))
            /\ scans' = others
       ELSE /\ scans' = others (+) SetToBag({[items |-> st.items, i |-> st.i,
                                              subroutineItems |-> st.subroutineItems]})
            /\ pastChats' = pastChats
            /\ mutationQueued' = queued

scanChatList(queued) ==
    /\ BagCardinality(scans) < MaxScans
    /\ RunScan(ScanFrom([items |-> pastChats, i |-> 1, subroutineItems |-> <<>>,
                         cache |-> metaCache, border |-> borderLeft]),
               scans, queued)

\* init() of chat-list.js after waitForElement('.past_chats', 3000) settled:
\* setupObserver when the container was found, then the initial scan
ChatListInit(found) ==
    /\ observer = "waiting"
    /\ observer' = IF found THEN "attached" ELSE "absent"
    /\ scanChatList(mutationQueued)
    /\ lastOp' = Op("chatListInit", NoChatId, observer')
    /\ emitted' = <<>>
    /\ UNCHANGED <<envVars, chatFiles, regVars, ticks, busVars, uiEvents>>
    /\ UNCHANGED skillVars

\* the host opened chat chatId and emitted CHAT_CHANGED: the listener
\* registered by init() is scanChatList
ChatChanged(chatId) ==
    /\ chatId # currentChat
    /\ currentChat' = chatId
    /\ observer' = observer
    /\ scanChatList(mutationQueued)
    /\ lastOp' = Op("chatChanged", chatId, "")
    /\ emitted' = <<>>
    /\ UNCHANGED <<chatMetadata, chatFiles, regVars, ticks, busVars, uiEvents>>
    /\ UNCHANGED skillVars

\* the MutationObserver callback: the records hold added nodes.  The history
\* tells a callback that follows another one directly from the first.
ObserverCallback ==
    /\ mutationQueued
    /\ observer' = observer
    /\ scanChatList(FALSE)
    /\ lastOp' = Op("observerCallback", NoChatId,
                    IF lastOp = Op("observerCallback", NoChatId, "first")
                    THEN "next" ELSE "first")
    /\ emitted' = <<>>
    /\ UNCHANGED <<envVars, chatFiles, regVars, ticks, busVars, uiEvents>>
    /\ UNCHANGED skillVars

\* scanChatList after fetchChatMetadataConfig(filename) settled: the
\* sillyagents block of the chat's metadata, or null when the request failed
FetchMetadataReturn(p, ok) ==
    /\ p \in BagToSet(scans)
    /\ observer' = observer
    /\ LET filename == p.items[p.i]
           config   == IF ok THEN chatMetadata[filename] ELSE NoConfig
       IN  RunScan(ScanFrom([items |-> p.items, i |-> p.i,
                             subroutineItems |-> p.subroutineItems,
                             cache |-> [metaCache EXCEPT ![filename] = config],
                             border |-> borderLeft]),
                   scans (-) SetToBag({p}), mutationQueued)
    /\ lastOp' = Op("fetchMetadata", p.items[p.i], IF ok THEN "ok" ELSE "failed")
    /\ emitted' = <<>>
    /\ UNCHANGED <<envVars, chatFiles, regVars, ticks, busVars, uiEvents>>
    /\ UNCHANGED skillVars

\* onFormChange of the settings panel up to `await setSubroutineConfig`:
\* the controls are read back into the open chat's config
OnFormChange(config) ==
    /\ getSubroutineConfig(currentChat) # NoConfig
    /\ LET e == [type |-> "sa:config-changed", chat |-> currentChat] IN
       /\ e \notin uiEvents
       /\ uiEvents' = uiEvents \cup {e}
    /\ chatMetadata' = [chatMetadata EXCEPT ![currentChat] = config]
    /\ lastOp' = Op("onFormChange", currentChat, "")
    /\ emitted' = <<>>
    /\ UNCHANGED <<currentChat, chatFiles, regVars, ticks, busVars, metaCache,
                   pastChats, borderLeft, scans, mutationQueued, observer>>
    /\ UNCHANGED skillVars

\* onFormChange after saveMetadata() settled: emit('sa:config-changed')
\* without data, which runs onConfigChanged(undefined), then
\* emit('sa:color-changed', {color}), which runs scanChatList
FormChangeEmit(e, ok) ==
    /\ e \in uiEvents /\ e.type = "sa:config-changed"
    /\ uiEvents' = uiEvents \ {e}
    /\ observer' = observer
    /\ IF ok
       THEN /\ SetRegistry(onConfigChanged(Registry, NoChatId))
            /\ scanChatList(mutationQueued)
            /\ lastOp' = Op("emitConfigChanged", e.chat,
                            onConfigChangedPath(Registry, NoChatId))
       ELSE /\ emitted' = <<>>
            /\ lastOp' = Op("emitConfigChanged", e.chat, "failed")
            /\ UNCHANGED <<regVars, metaCache, pastChats, borderLeft, scans,
                           mutationQueued>>
    /\ UNCHANGED <<envVars, chatFiles, ticks, busVars>>
    /\ UNCHANGED skillVars

\* onCreateSubroutine of the chat list from the end of its 500 ms wait to
\* `await setSubroutineConfig`: the default config with running = true is
\* written into the chat that is open by then
OnCreateSubroutine ==
    /\ LET e == [type |-> "sa:subroutine-created", chat |-> currentChat] IN
       /\ e \notin uiEvents
       /\ uiEvents' = uiEvents \cup {e}
    /\ chatMetadata' = [chatMetadata EXCEPT ![currentChat] =
                           [defaultSubroutineConfig EXCEPT !.running = TRUE]]
    /\ lastOp' = Op("onCreateSubroutine", currentChat, "")
    /\ emitted' = <<>>
    /\ UNCHANGED <<currentChat, chatFiles, regVars, ticks, busVars, metaCache,
                   pastChats, borderLeft, scans, mutationQueued, observer>>
    /\ UNCHANGED skillVars

\* onCreateSubroutine after saveMetadata() settled:
\* emit('sa:subroutine-created', { name }) runs onSubroutineCreated with a
\* data object that has no chatId, then scanChatList()
CreateSubroutineEmit(e, ok) ==
    /\ e \in uiEvents /\ e.type = "sa:subroutine-created"
    /\ uiEvents' = uiEvents \ {e}
    /\ observer' = observer
    /\ LET chatId == NoChatId IN
       IF ok
       THEN /\ settling' = IF chatId = NoChatId THEN settling
                           ELSE [settling EXCEPT ![chatId] = @ + 1]
            /\ scanChatList(mutationQueued)
            /\ lastOp' = Op("emitSubroutineCreated", e.chat,
                            IF chatId = NoChatId THEN "nochatid" ELSE "settling")
       ELSE /\ lastOp' = Op("emitSubroutineCreated", e.chat, "failed")
            /\ UNCHANGED <<settling, metaCache, pastChats, borderLeft, scans,
                           mutationQueued>>
    /\ emitted' = <<>>
    /\ UNCHANGED <<envVars, chatFiles, regVars, ticks, notifications, initPc>>
    /\ UNCHANGED skillVars

\* SpecUi: the settings panel and the chat list over two chats, with the
\* runtime's listeners registered.
UiConfigs == MainConfigs \cup {[defaultSubroutineConfig EXCEPT !.color = "#d94a4a"]}

UiInit ==
    /\ InitWith(MainChats, UiConfigs)
    /\ chatMetadata["A"] \in MainConfigs /\ chatMetadata["B"] = NoConfig
    /\ currentChat = "A"

\* the handlers of the chat list that run without a user or host event
UiInternalNext ==
    \/ ObserverCallback
    \/ \E p \in BagToSet(scans), ok \in BOOLEAN : FetchMetadataReturn(p, ok)

UiNext ==
    \/ \E found \in BOOLEAN : ChatListInit(found)
    \/ \E c \in MainChats : ChatChanged(c)
    \/ \E cfg \in UiConfigs : OnFormChange(cfg)
    \/ \E e \in uiEvents, ok \in BOOLEAN : FormChangeEmit(e, ok)
    \/ OnCreateSubroutine
    \/ \E e \in uiEvents, ok \in BOOLEAN : CreateSubroutineEmit(e, ok)
    \/ UiInternalNext

SpecUi == UiInit /\ [][UiNext]_vars

\* SpecUiFair: the same, and the observer's callback and pending fetches run.
SpecUiFair == SpecUi /\ WF_vars(UiInternalNext)

\* ================================================================ claims
HasLoop(chatId) == runningLoops[chatId] # NoLoop

\* the heartbeat cycles of a chat that are in flight
Cycles(chatId) == {p \in Suspended : p.chatId = chatId /\ p.pc \in CyclePcs}
CycleCount(chatId) ==
    BagCardinality([p \in Cycles(chatId) |-> CopiesIn(p, ticks)])

\* the LoopState of chatId exists and its guard flag is set
Generating(chatId) ==
    HasLoop(chatId) /\ isGenerating[runningLoops[chatId].intervalId]

\* no config-changed event is queued and no settle delay is running
Settled == notifications = {} /\ \A c \in AllChats : settling[c] = 0

\* C1: for every session at most one heartbeat cycle is in flight at any
\* time, whatever the interleaving of ticks, suspended trigger evaluations
\* and stop / start / restart calls.
C1_AtMostOneCycleInFlight == \A c \in AllChats : CycleCount(c) <= 1

\* C2: a tick that fires while the session's LoopState has
\* isGenerating = true is dropped: no config-driven stop, no trigger
\* evaluation, no collaborator call started, nothing written, nothing queued.
C2_TickDroppedWhileGenerating ==
    [][ \A c \in AllChats :
          (lastOp'.op = "onTick" /\ lastOp'.chatId = c /\ Generating(c))
            => /\ UNCHANGED <<chatMetadata, currentChat, chatFiles, regVars,
                              ticks, busVars>>
               /\ emitted' = <<>> ]_vars

C2_Witness ==
    /\ lastOp = Op("onTick", "A", "skipped")
    /\ Generating("A")
    /\ CycleCount("A") = 1

\* C3: in every reachable state the registry holds no LoopState for a
\* session whose config is missing or has running:false.
C3_NoLoopUnlessRunning ==
    \A c \in AllChats : HasLoop(c) => Running(chatMetadata[c])

\* C4: when every config write has had its config-changed event delivered
\* and every settle delay has elapsed, no LoopState exists for a session
\* whose config has running = false.
C4_SettledNoLoopWhenNotRunning ==
    Settled =>
      \A c \in AllChats :
        (chatMetadata[c] # NoConfig /\ ~chatMetadata[c].running) => ~HasLoop(c)

\* C5: when onConfigChanged(sessionId) returns, a LoopState for sessionId
\* exists iff the session's config exists and has running:true.
C5_OnConfigChangedConverges ==
    \A c \in AllChats :
      (lastOp.op = "onConfigChanged" /\ lastOp.chatId = c)
        => (HasLoop(c) <=> Running(chatMetadata[c]))

\* C6: startLoop(sessionId) on a session that already has a LoopState arms
\* no timer, keeps the LoopState and its isGenerating value, and emits
\* nothing: exactly one timer stays armed for the session.
C6_StartLoopIdempotent ==
    [][ \A c \in AllChats :
          (lastOp'.op = "startLoop" /\ lastOp'.chatId = c /\ HasLoop(c))
            => /\ UNCHANGED regVars
               /\ emitted' = <<>>
               /\ Cardinality({t \in timers' : t.chatId = c}) = 1 ]_vars

C6_Witness ==
    /\ lastOp = Op("startLoop", "A", "already")
    /\ Generating("A")
    /\ Cardinality({t \in timers : t.chatId = "A"}) = 1

\* C7: each session has at most one armed timer, and a timer is armed for
\* a session iff the registry holds a LoopState for it with that handle.
C7_TimersMatchRegistry ==
    /\ \A t \in timers :
         HasLoop(t.chatId) /\ runningLoops[t.chatId].intervalId = t.id
    /\ \A c \in AllChats :
         /\ Cardinality({t \in timers : t.chatId = c}) <= 1
         /\ HasLoop(c) => \E t \in timers :
                            t.chatId = c /\ t.id = runningLoops[c].intervalId

C7_Witness ==
    /\ lastOp.op = "stopLoop" /\ lastOp.path = "stopped"
    /\ ~HasLoop(lastOp.chatId)
    /\ Cardinality(timers) = 1

\* C8: stopLoop(sessionId) without a LoopState changes nothing and emits
\* nothing; with one it cancels that timer, removes that LoopState, emits
\* exactly one loop-state{sessionId, running:false} and leaves every other
\* session's LoopState and timer as they were.
C8_StopLoopEffect ==
    [][ \A c \in AllChats :
          (lastOp'.op = "stopLoop" /\ lastOp'.chatId = c)
            => IF HasLoop(c)
               THEN /\ runningLoops' = [runningLoops EXCEPT ![c] = NoLoop]
                    /\ timers' = {t \in timers : t.chatId # c}
                    /\ emitted' = <<[chatId |-> c, running |-> FALSE]>>
                    /\ UNCHANGED <<isGenerating, nextIntervalId>>
               ELSE /\ UNCHANGED regVars
                    /\ emitted' = <<>> ]_vars

C8_Witness ==
    /\ lastOp = Op("stopLoop", "A", "stopped")
    /\ ~HasLoop("A") /\ HasLoop("B")
    /\ emitted = <<[chatId |-> "A", running |-> FALSE]>>

\* C9: restartLoop(sessionId) leaves registry, timers and notifications as
\* stopLoop followed by startLoop does when a LoopState existed: the old
\* timer is cancelled, a new one is armed with the period of the session's
\* own current config, and running:false then running:true are emitted.
\* It changes nothing when no LoopState existed.
C9_RestartIsStopThenStart ==
    \A c \in MainChats :
      LET restarted == restartLoop(Registry, c) IN
      IF HasLoop(c)
      THEN /\ restarted = startLoop(stopLoop(Registry, c), c)
           /\ \A t \in restarted.timers : t.id # runningLoops[c].intervalId
           /\ chatMetadata[c] # NoConfig =>
                /\ restarted.runningLoops[c] = [intervalId |-> nextIntervalId]
                /\ [id |-> nextIntervalId, chatId |-> c,
                    interval |-> Max(chatMetadata[c].intervalSeconds,
                                     MinIntervalSeconds) * MsPerSecond]
                      \in restarted.timers
                /\ restarted.emitted = <<[chatId |-> c, running |-> FALSE],
                                         [chatId |-> c, running |-> TRUE]>>
      ELSE restarted = Registry

\* C10: resumeAll() starts a loop for exactly the known sessions whose
\* persisted config has running:true (2 of 3 sessions running: 2 loops).
C10_ResumeAllStartsRunningOnes ==
    (lastOp.op = "resumeAll" /\ lastOp.path = "scanned")
      => \A c \in AllChats : HasLoop(c) <=> Running(chatMetadata[c])

C12_SettleRereadsConfig ==
    [][ \A c \in AllChats :
          (lastOp'.op = "settleElapsed" /\ lastOp'.chatId = c)
            => /\ IF Running(chatMetadata[c])
                  THEN runningLoops'[c] # NoLoop
                  ELSE UNCHANGED regVars /\ emitted' = <<>>
               /\ runningLoops[c] # NoLoop => UNCHANGED regVars
               /\ Cardinality({t \in timers' : t.chatId = c}) <= 1 ]_vars

IsPrefix(s, t) == Len(s) <= Len(t) /\ SubSeq(t, 1, Len(s)) = s

\* C14: the persisted transcript of a session only grows by appending:
\* every persisted version has the previously persisted one as a prefix.
C14_TranscriptAppendOnly ==
    [][ \A c \in AllChats : IsPrefix(chatFiles[c], chatFiles'[c]) ]_vars

\* the turn a cycle appended for the tool call `toolCall`
IsToolTurn(turn, toolCall) ==
    /\ turn.name = "System"
    /\ turn.tool_call_id = toolCall.id
    /\ turn.mes.tool = toolCall.name

\* C15: when the first generation result of a cycle carries tool-call
\* requests (here two), the cycle has appended one heartbeat turn followed
\* by one tool-result turn per request, in request order, by the time it
\* invokes generation the second time.
C15_ToolTurnsBeforeSecondGeneration ==
    \A p \in Suspended :
      p.pc = "generate2" =>
        LET n == Len(p.chatData) IN
        /\ n >= 3
        /\ p.chatData[n - 2] = heartbeat(p.config)
        /\ IsToolTurn(p.chatData[n - 1], TwoToolCalls[1])
        /\ IsToolTurn(p.chatData[n], TwoToolCalls[2])

\* C16: for every tool-call request of a cycle, whether the invocation
\* returns a result, returns an error value or throws, exactly one turn with
\* the tool's name is appended and persisted, and the requests that remain
\* are processed in order, none passed over.
C16_OneTurnPerToolCall ==
    [][ \A p \in BagToSet(ticks) :
          /\ (lastOp'.op = "generate1" /\ lastOp'.path = "tool_calls"
                 /\ p.pc = "generate1")
                => \E q \in BagToSet(ticks') :
                     q.pc = "invokeTool" /\ Len(q.toolCalls) = Len(TwoToolCalls)
          /\ (lastOp'.op = "invokeTool" /\ p.pc = "invokeTool")
                => \E q \in BagToSet(ticks') :
                     /\ q.pc = "saveTool"
                     /\ q.toolCalls = p.toolCalls
                     /\ q.chatData # p.chatData
                     /\ SubSeq(q.chatData, 1, Len(q.chatData) - 1) = p.chatData
                     /\ IsToolTurn(q.chatData[Len(q.chatData)], Head(p.toolCalls))
          /\ (lastOp'.op = "saveTool" /\ p.pc = "saveTool")
                => /\ lastOp'.path = "saved" => chatFiles'[p.chatId] = p.chatData
                   /\ \E q \in BagToSet(ticks') :
                        IF Tail(p.toolCalls) = <<>> THEN q.pc = "generate2"
                        ELSE q.pc = "invokeTool" /\ q.toolCalls = Tail(p.toolCalls)
      ]_vars

\* C17: with autoQueue=true and a final generation result (the first when
\* it has no tool calls, otherwise the second) without tool calls, exactly
\* one continuation turn with body autoQueuePrompt (or the default) is
\* appended and generation is invoked exactly once more; with a final
\* result that has tool calls, or autoQueue=false, the cycle ends there.
C17_AutoQueueOnce ==
    [][ lastOp'.op \in {"generate1", "generate2", "saveAutoQueue", "generate3"}
          => \E p \in BagToSet(ticks) :
               /\ p.pc = lastOp'.op /\ p.chatId = lastOp'.chatId
               /\ (p.pc \in {"generate1", "generate2"} /\ lastOp'.path = "result")
                     => IF p.config.autoQueue
                        THEN ticks' = Resume(p) (+) SetToBag({[p EXCEPT
                               !.pc = "saveAutoQueue",
                               !.toolCalls = <<>>,
                               !.chatData = Append(p.chatData,
                                 [ is_user |-> TRUE, name |-> "User",
                                   mes |-> IF p.config.autoQueuePrompt = ""
                                           THEN "Continue or call the finish tool if done."
                                           ELSE p.config.autoQueuePrompt ])]})
                        ELSE ticks' = Resume(p)
               /\ (p.pc = "generate2" /\ lastOp'.path = "tool_calls")
                     => ticks' = Resume(p)
               /\ p.pc = "saveAutoQueue"
                     => ticks' = Resume(p) (+) SetToBag({[p EXCEPT !.pc = "generate3"]})
               /\ p.pc = "generate3"
                     => ticks' = Resume(p)
      ]_vars

C17_Witness ==
    /\ lastOp.op = "generate3"
    /\ ticks = EmptyBag
    /\ Len(chatFiles["A"]) = 2
    /\ chatFiles["A"][2].mes = "Continue or call the finish tool if done."

\* C18: when the transcript load, the persisting of an appended turn or a
\* generation call fails at some step of a cycle, the cycle ends at that
\* step: no invocation of that session is left to perform later steps.
C18_CycleEndsOnStoreOrGenerationError ==
    [][ \A p \in BagToSet(ticks) :
          ( /\ lastOp'.op = p.pc /\ lastOp'.chatId = p.chatId
            /\ p.pc \in CyclePcs \ {"invokeTool"}
            /\ lastOp'.path \in {"failed", "throw"} )
            => ticks' = Resume(p)
      ]_vars

\* C19: every cycle that sets isGenerating=true eventually resets it to
\* false, whether it completes, returns early on a failed load or a
\* collaborator throws (every collaborator call returning); the flag of a
\* LoopState is set only while a cycle holding that LoopState is in flight.
C19_GuardEventuallyReset ==
    /\ \A i \in 1..MaxIntervalIds :
         (i \in DOMAIN isGenerating /\ isGenerating[i])
           ~> (i \in DOMAIN isGenerating /\ ~isGenerating[i])
    /\ [](\A i \in DOMAIN isGenerating :
            isGenerating[i] =>
              \E p \in BagToSet(ticks) : p.pc \in CyclePcs /\ p.loopState = i)

C19_Witness ==
    /\ lastOp = Op("generate2", "A", "throw")
    /\ ticks = EmptyBag
    /\ 1 \in DOMAIN isGenerating /\ ~isGenerating[1]

\* the handlers that resume a tick after a collaborator call settled
ReturnOps == {"toolTrigger", "fetch", "apiTrigger", "loadChat", "invokeTool"}
               \cup {"saveHeartbeat", "saveTool", "saveAutoQueue"}
               \cup {"generate1", "generate2", "generate3"}

\* C20: no collaborator failure during a tick (trigger poll or fetch, load,
\* save, generation, tool invocation) escapes the tick handler, removes a
\* LoopState or cancels a timer, or touches another session's LoopState;
\* when the failure has ended the tick, the session's guard is open, so
\* its next tick is processed normally.
C20_FailuresStayInsideTick ==
    /\ [][ \A p \in BagToSet(ticks) :
             (lastOp'.op \in ReturnOps /\ lastOp'.chatId = p.chatId)
               => /\ UNCHANGED <<runningLoops, timers, nextIntervalId>>
                  /\ emitted' = <<>>
                  /\ \A c \in AllChats \ {p.chatId} :
                       HasLoop(c) =>
                         isGenerating'[runningLoops[c].intervalId]
                           = isGenerating[runningLoops[c].intervalId]
                  /\ (ticks' = EmptyBag /\ HasLoop(p.chatId))
                       => ~isGenerating'[runningLoops[p.chatId].intervalId]
         ]_vars
    /\ [](\A p \in BagToSet(ticks) :
            /\ p.pc = "evalTool" =>
                  \A o \in ToolOutcomes : ENABLED ToolTriggerReturn(p, o)
            /\ p.pc = "fetch" => ENABLED FetchReturn(p, FALSE)
            /\ p.pc = "text" =>
                  \A o \in TextOutcomes : ENABLED TextReturn(p, o)
            /\ p.pc = "loadChat" => ENABLED LoadChatReturn(p, FALSE)
            /\ p.pc \in {"saveHeartbeat", "saveTool", "saveAutoQueue"} =>
                  ENABLED SaveChatReturn(p, FALSE)
            /\ p.pc \in {"generate1", "generate2", "generate3"} =>
                  ENABLED GenerateReturn(p, Throw)
            /\ p.pc = "invokeTool" =>
                  \A o \in ToolOutcomes : ENABLED InvokeToolReturn(p, o))

C20_Witness ==
    /\ lastOp = Op("loadChat", "A", "failed")
    /\ HasLoop("A") /\ HasLoop("B")
    /\ Cardinality(timers) = 2
    /\ ~Generating("A") /\ ticks = EmptyBag

\* C21: loops are independent across sessions: a step that is not about
\* session c (a chat switch, a config write on another chat, a start, stop,
\* config-changed event or tick of another session) leaves c's LoopState
\* and timer, the config the runtime reads for c, and the path c's next
\* tick takes unchanged.
C21_SessionsIndependent ==
    [][ \A c \in MainChats :
          (lastOp'.op = "switchChat" \/ lastOp'.chatId # c)
            => /\ runningLoops'[c] = runningLoops[c]
               /\ {t \in timers' : t.chatId = c} = {t \in timers : t.chatId = c}
               /\ getSubroutineConfig(c)' = getSubroutineConfig(c)
               /\ onTickPath(c)' = onTickPath(c) ]_vars

\* a trigger-type-specific required field of the config is missing
MissingTriggerField(config) ==
    \/ config.triggerType = "tool"
         /\ (config.toolName = "" \/ config.toolCondition = <<>>)
    \/ config.triggerType = "api" /\ config.apiUrl = ""

\* the heartbeat cycles started by the step
StartedCycles ==
    {q \in BagToSet(ticks') :
       q.pc = "loadChat" /\ CopiesIn(q, ticks') > CopiesIn(q, ticks)}

\* C22: the Trigger Evaluator fails closed on configuration errors: no
\* tick starts a cycle on a config whose required field is missing (Tool
\* with empty toolName or empty toolCondition, Api with empty apiUrl).
C22_FailsClosedOnMissingField ==
    [][ \A q \in StartedCycles : ~MissingTriggerField(q.config) ]_vars

\* the tick of session c that the step processes: it is neither stale nor
\* skipped by the guard, and the config it re-reads exists
ProcessedTick(c) ==
    /\ lastOp'.op = "onTick" /\ lastOp'.chatId = c
    /\ HasLoop(c) /\ ~Generating(c)
    /\ getSubroutineConfig(c) # NoConfig

\* C23: every tick of a live session that is not skipped by the guard and
\* whose re-read config has triggerType time starts a cycle, and nothing
\* else: no tool poll and no fetch is started for the decision, whatever
\* the other fields of the config are.
C23_TimeTriggerAlwaysFires ==
    [][ \A c \in AllChats :
          (ProcessedTick(c) /\ getSubroutineConfig(c).triggerType = "time")
            => /\ ticks' = ticks (+) SetToBag({
                     [ chatId |-> c, pc |-> "loadChat",
                       config |-> getSubroutineConfig(c),
                       loopState |-> runningLoops[c].intervalId,
                       chatData |-> <<>>, toolCalls |-> <<>> ]})
               /\ isGenerating'[runningLoops[c].intervalId]
               /\ UNCHANGED <<runningLoops, timers, chatFiles>> ]_vars

C23_Witness ==
    /\ lastOp = Op("onTick", "A", "fire")
    /\ chatMetadata["A"].triggerType = "time"
    /\ chatMetadata["A"].toolName = "check_email"
    /\ chatMetadata["A"].apiUrl # ""
    /\ \E p \in Suspended : p.pc = "loadChat" /\ p.chatId = "A"
    /\ Generating("A")

\* C24: a tick on a tool trigger with an empty toolName invokes no tool and
\* starts no cycle: no invocation is left suspended, the guard stays open,
\* nothing is written.
C24_EmptyToolNameNoInvoke ==
    [][ \A c \in AllChats :
          ( /\ ProcessedTick(c)
            /\ getSubroutineConfig(c).triggerType = "tool"
            /\ getSubroutineConfig(c).toolName = "" )
            => /\ UNCHANGED <<ticks, regVars, chatFiles>>
               /\ emitted' = <<>> ]_vars

C24_Witness ==
    /\ lastOp = Op("onTick", "A", "nofire")
    /\ chatMetadata["A"].triggerType = "tool"
    /\ chatMetadata["A"].toolName = ""
    /\ HasLoop("A") /\ ~Generating("A")
    /\ ticks = EmptyBag

\* the polls of the tool trigger that return true: the result is neither an
\* error value nor thrown, and its string form contains toolCondition
ToolTriggerFires(toolCondition, outcome) ==
    /\ outcome.kind \in {"string", "object", "undefined"}
    /\ \/ toolCondition = <<>>
       \/ /\ toolCondition = <<"o", "k">>
          /\ outcome.kind = "string"
          /\ outcome.value \in { <<"o", "k">>, <<"n", "o", "k", "!">> }

FiringBodies ==
    { <<"p", "e", "n", "d", "i", "n", "g">>, <<"n", "u", "l", "l", "s">>,
      <<"[", " ", "]">> }

TriggerTypes == {"time", "tool", "api"}

\* C27: a tick whose re-read config has a trigger kind other than time,
\* tool or api starts no cycle and no poll and leaves the session's
\* LoopState and timer in place: the timer stays armed and its next tick
\* is processed.
C27_UnknownTriggerKeepsLoop ==
    /\ [][ \A c \in AllChats :
             ( /\ ProcessedTick(c)
               /\ getSubroutineConfig(c).triggerType \notin TriggerTypes )
               => /\ UNCHANGED <<ticks, regVars, chatFiles>>
                  /\ emitted' = <<>>
                  /\ \E t \in timers' :
                       t.chatId = c /\ t.id = runningLoops'[c].intervalId ]_vars
    /\ [](\A t \in timers :
            ( /\ lastOp = Op("onTick", t.chatId, "nofire")
              /\ getSubroutineConfig(t.chatId) # NoConfig
              /\ getSubroutineConfig(t.chatId).triggerType \notin TriggerTypes )
              => ENABLED OnTick(t, MaxMainTicks))

C27_Witness ==
    /\ lastOp = Op("onTick", "A", "nofire")
    /\ chatMetadata["A"].triggerType = "webhook"
    /\ HasLoop("A") /\ ~Generating("A")
    /\ \E t \in timers : t.chatId = "A"
    /\ ticks = EmptyBag

\* C28: the registry converges to an edited running flag within one
\* interval: a tick of a live session that is not skipped by the guard and
\* finds the session's config with running:false removes the session's
\* LoopState and starts no cycle.
C28_TickConvergesOnRunningFalse ==
    [][ \A c \in MainChats :
          ( /\ lastOp'.op = "onTick" /\ lastOp'.chatId = c
            /\ HasLoop(c) /\ ~Generating(c)
            /\ chatMetadata[c] # NoConfig /\ ~chatMetadata[c].running )
            => /\ runningLoops'[c] = NoLoop
               /\ StartedCycles = {} ]_vars

\* the transcript holds the result turn of a call to the finish tool
FinishCalled(chatData) ==
    \E i \in 1..Len(chatData) :
      chatData[i].name = "System" /\ chatData[i].mes.tool = "finish"

\* C29: in auto-queue mode the loop runs until the finish tool is called:
\* when a cycle that invoked the finish tool and recorded its result ends,
\* the session's loop is stopped (no LoopState, no armed timer).
C29_FinishStopsLoop ==
    [][ \A p \in BagToSet(ticks) :
          ( /\ lastOp'.op = p.pc /\ lastOp'.chatId = p.chatId
            /\ p.pc \in {"generate2", "generate3"}
            /\ ticks' = Resume(p)
            /\ FinishCalled(p.chatData) )
            => /\ runningLoops'[p.chatId] = NoLoop
               /\ \A t \in timers' : t.chatId # p.chatId ]_vars

\* the archives without a SKILL.md at the root or one directory deep
InvalidArchives ==
    { DeepArchive, NoSkillArchive, LowerArchive, DirArchive, EmptyArchive }

\* C30: importing a zip that has no SKILL.md at the archive root or
\* exactly one directory deep fails with an error: the import ends when
\* the archive has been opened, reads no entry, and leaves the skill
\* library, in memory and persisted, as it was.
C30_InvalidZipLeavesLibrary ==
    /\ [][ \A p \in BagToSet(imports) :
             p.zip \in InvalidArchives =>
               /\ \A ok \in BOOLEAN :
                    GetJSZipReturn(p, ok) => UNCHANGED <<skills, skillStore>>
               /\ \A ok \in BOOLEAN :
                    LoadAsyncReturn(p, ok)
                      => /\ lastOp'.path = (IF ok THEN "invalid" ELSE "error")
                         /\ imports' = imports (-) SetToBag({p})
                         /\ UNCHANGED <<skills, skillStore>> ]_vars
    /\ [](\A p \in BagToSet(imports) :
            p.zip \in InvalidArchives => p.pc \in {"getJSZip", "loadAsync"})

C30_Witness ==
    /\ lastOp = Op("loadAsync", NoChatId, "invalid")
    /\ imports = EmptyBag
    /\ Len(skills) = 1 /\ skillStore = skills

\* C31: for every session that has a LoopState, its isGenerating flag is
\* true iff a heartbeat cycle for that session is in flight.
C31_GuardIffCycleInFlight ==
    \A c \in AllChats :
      HasLoop(c) =>
        (isGenerating[runningLoops[c].intervalId] <=> CycleCount(c) >= 1)

\* C32: after stopLoop(sessionId) and until the next startLoop(sessionId),
\* that is while the session has no LoopState, no cycle starts for it: its
\* timer is gone, and a tick that was suspended in its trigger evaluation
\* when the stop happened ends without a cycle even when the trigger fires.
C32_NoCycleAfterStop ==
    /\ [][ \A q \in StartedCycles :
             /\ HasLoop(q.chatId)
             /\ q.loopState = runningLoops[q.chatId].intervalId ]_vars
    /\ [](\A c \in AllChats : ~HasLoop(c) => \A t \in timers : t.chatId # c)

C32_Witness ==
    /\ lastOp = Op("toolTrigger", "A", "fire")
    /\ ~HasLoop("A") /\ nextIntervalId = 2
    /\ ticks = EmptyBag

\* C33: a tick that is not skipped and finds the session's config missing
\* stops the loop (timer cancelled, LoopState removed, loop-state
\* running:false emitted) without a trigger evaluation or a cycle; a tick
\* that finds no LoopState for its session has no effect.
C33_TickStopsOnMissingConfig ==
    [][ \A c \in MainChats :
          (lastOp'.op = "onTick" /\ lastOp'.chatId = c)
            => /\ (HasLoop(c) /\ ~Generating(c) /\ chatMetadata[c] = NoConfig)
                    => /\ runningLoops' = [runningLoops EXCEPT ![c] = NoLoop]
                       /\ timers' = {t \in timers : t.chatId # c}
                       /\ emitted' = <<[chatId |-> c, running |-> FALSE]>>
                       /\ UNCHANGED <<ticks, isGenerating, chatFiles>>
               /\ ~HasLoop(c)
                    => /\ UNCHANGED <<regVars, ticks, chatFiles>>
                       /\ emitted' = <<>> ]_vars

\* the stages of a cycle in the order fireHeartbeat reaches them
CycleRank(pc) ==
    CASE pc = "loadChat" -> 0 [] pc = "saveHeartbeat" -> 1
      [] pc = "generate1" -> 2 [] pc = "invokeTool" -> 3 [] pc = "saveTool" -> 3
      [] pc = "generate2" -> 4 [] pc = "saveAutoQueue" -> 5
      [] pc = "generate3" -> 6

IsSuffix(s, t) == \E k \in 0..Len(t) : s = SubSeq(t, k + 1, Len(t))

\* C34: a cycle calls the generation collaborator at most three times and
\* executes only the tool calls of its first result: a cycle never goes back
\* to an earlier stage, every generation result moves it to a later one, the
\* calls left to execute only shrink, nothing is left to execute once the
\* second generation was requested, and the continuation result ends it.
C34_ThreeGenerationsFirstToolCallsOnly ==
    [][ lastOp'.op \in CyclePcs =>
          \A p \in BagToSet(ticks (-) ticks'), q \in BagToSet(ticks' (-) ticks) :
            /\ CycleRank(q.pc) >= CycleRank(p.pc)
            /\ p.pc \in {"generate1", "generate2", "generate3"}
                 => CycleRank(q.pc) > CycleRank(p.pc)
            /\ p.pc \in {"invokeTool", "saveTool"}
                 => IsSuffix(q.toolCalls, p.toolCalls)
            /\ p.pc \in {"generate2", "saveAutoQueue", "generate3"}
                 => q.toolCalls = <<>> /\ q.pc \notin {"invokeTool", "saveTool"} ]_vars

C34_Witness ==
    /\ lastOp = Op("generate3", "A", "tool_calls")
    /\ CycleCount("A") = 0
    /\ HasLoop("A")

CallStages == {"generate1", "invokeTool", "generate2", "generate3"}
WriteStages == {"saveHeartbeat", "saveTool", "saveAutoQueue"}

\* C35: within a cycle every appended turn is persisted before the next
\* collaborator call begins: a step that appends a turn goes on to a
\* transcript write and to nothing else, and whenever a step takes the cycle
\* to a generation or a tool invocation the transcript in the session store
\* is the cycle's transcript, every appended turn included.
C35_TurnsPersistedBeforeNextCall ==
    [][ lastOp'.op \in CyclePcs =>
          \A p \in BagToSet(ticks (-) ticks'), q \in BagToSet(ticks' (-) ticks) :
            /\ q.chatData # p.chatData
                 => /\ q.pc \in WriteStages
                    /\ p.pc = "loadChat" \/ Len(q.chatData) = Len(p.chatData) + 1
            /\ q.pc \in CallStages => chatFiles'[q.chatId] = q.chatData ]_vars

\* the operations that store a subroutine config (the panel and other
\* writers, through setSubroutineConfig)
ConfigWriters == {"writeConfig", "setSubroutineConfig"}

\* C36: no operation of the runtime writes a session's persisted config:
\* every step other than a config writer's leaves every field of every
\* config as it was, whether it starts, stops or restarts a loop, handles a
\* tick or an event, or is a step of a cycle that succeeds, fails or invokes
\* the finish tool.
C36_RuntimeNeverWritesConfig ==
    [][ lastOp'.op \notin ConfigWriters => chatMetadata' = chatMetadata ]_vars

C36_Witness ==
    /\ lastOp.op = "generate3"
    /\ CycleCount("A") = 0
    /\ FinishCalled(chatFiles["A"])
    /\ chatMetadata["A"] # NoConfig /\ chatMetadata["A"].running
    /\ HasLoop("A")

\* the sa:loop-state notifications of the last handler that concern chat c
EmittedFor(c) ==
    LET Concerns(e) == e.chatId = c IN SelectSeq(emitted, Concerns)

\* C37: for each session the sa:loop-state notifications alternate
\* running:true, running:false, ... beginning with running:true, and after
\* every operation the most recent one equals whether a LoopState exists:
\* no session has a LoopState at the start, and the notifications of each
\* runtime operation alternate for each session, begin with the opposite of
\* whether it had a LoopState before and end with whether it has one after
\* (none emitted: the LoopState is as before).
C37_LoopStateNotificationsAlternate ==
    /\ \A c \in AllChats : ~HasLoop(c)
    /\ [][ UNCHANGED <<skillVars, uiVars>> =>
             \A c \in AllChats :
               LET s == EmittedFor(c)' IN
               /\ \A i \in 1..Len(s) :
                    s[i].running = (IF i % 2 = 1 THEN ~HasLoop(c) ELSE HasLoop(c))
               /\ HasLoop(c)' = (IF Len(s) % 2 = 0 THEN HasLoop(c) ELSE ~HasLoop(c)) ]_vars

C37_Witness ==
    /\ lastOp = Op("onConfigChanged", "A", "restart")
    /\ EmittedFor("A") = << [chatId |-> "A", running |-> FALSE],
                            [chatId |-> "A", running |-> TRUE] >>
    /\ HasLoop("A")

\* C38: every sa:config-changed notification the settings panel emits after
\* writing a config, and every sa:subroutine-created notification the chat
\* list emits after creating a subroutine, makes the runtime reconcile the
\* loop of the chat written: when the runtime's handler has finished, that
\* chat has a LoopState if and only if its config has running:true.
C38_UiNotificationsReconcile ==
    [][ \A c \in MainChats :
          (/\ lastOp'.op \in {"emitConfigChanged", "emitSubroutineCreated"}
           /\ lastOp'.chatId = c
           /\ lastOp'.path # "failed")
            => (HasLoop(c)' <=> Running(chatMetadata'[c])) ]_vars

\* C39: the chat-list metadata cache is invalidated on CHAT_CHANGED: when
\* the CHAT_CHANGED handler has run no entry cached before the event is
\* left, and the scan the event starts has decorated no item from such an
\* entry (it waits for the first item's metadata).
C39_CacheInvalidatedOnChatChanged ==
    [][ lastOp'.op = "chatChanged" =>
          /\ \A c \in AllChats : metaCache'[c] = NotCached
          /\ \A q \in BagToSet(scans' (-) scans) : q.i = 1
          /\ borderLeft' = borderLeft ]_vars

\* a step of the user, the host or another module, as opposed to the chat
\* list's own observer callback and fetch continuations
ExternalStep == lastOp'.op \notin {"observerCallback", "fetchMetadata"}

\* no scan is running or about to run
Quiescent == ~mutationQueued /\ scans = EmptyBag

\* C40: the chat-list scan quiesces: with the observer attached, once no
\* external step occurs any more only finitely many scans run, so from some
\* point on no scan is running and none is queued by the observer.
C40_ScanQuiesces ==
    (<>[][~ExternalStep]_vars) => <>[]Quiescent

====
